---- MODULE Spec2Model ----
(***************************************************************************)
(* FM-TimeTracker: the timesheet-week lifecycle, the entry store with its  *)
(* audit trail, the task logged-hours totals and the approval gate, as     *)
(* implemented by the request handlers of app/main.py.                     *)
(*                                                                         *)
(* Every handler is one action: it reads the tables, either raises an      *)
(* HTTPException (nothing is committed, the session is closed) or commits  *)
(* all its writes at once.  The variable last holds the response of the    *)
(* latest request.  Requests are served by a pool of threads, each with    *)
(* its own session: inflight holds the submit-week requests that have read *)
(* the table and have not yet committed, and likewise the entry requests.  *)
(*                                                                         *)
(* Dates are day numbers; day 0 is Monday 2024-06-10, so date.weekday() is *)
(* d % 7.  Hours are whole numbers of hours.  None is Python's None.       *)
(* datetime.date ranges from 0001-01-01 to 9999-12-31; date arithmetic that *)
(* leaves the range raises OverflowError.                                   *)
(***************************************************************************)
EXTENDS Integers, Sequences, FiniteSets, TLC

VARIABLES users, entries, audits, summaries, tasks, leaves, now, last, inflight

vars == <<users, entries, audits, summaries, tasks, leaves, now, last, inflight>>

None == -1

(* ---- bounds of the model ---------------------------------------------- *)
MaxEntries == 1
MaxAudits == 2
MaxLeaves == 1
MaxTime == 2
MaxLogged == 4
MaxEditAudits == 6
MaxInflight == 2
MaxViewEntries == 2
MaxRaceEntries == 2

(* ---- enumerations (app/models.py) ------------------------------------- *)
Role == {"admin", "programme_manager", "project_manager", "staff"}

LeaveStatus == {"pending", "approved", "rejected"}

TimesheetWeekStatus == {"draft", "submitted", "approved"}

(* ---- the accounts of the installation --------------------------------- *)
UserIds == {1, 2, 3, 4}

RoleOf(u) == CASE u = 1 -> "admin"
               [] u = 2 -> "programme_manager"
               [] u = 3 -> "project_manager"
               [] OTHER -> "staff"

TaskIds == {1, 2}

(* ---- pure helpers ----------------------------------------------------- *)
\* datetime.date.min and datetime.date.max as day numbers.
DateMin == -739046

DateMax == 2913012

\* main.py week_bounds: Monday on or before the date, and that Monday + 6.
\* <<>> stands for the OverflowError of a date sum beyond date.max.
week_bounds_NoSnap(target_date) == <<target_date, target_date + 6>>

week_bounds_SundayStart(target_date) ==
    LET week_start == target_date - ((target_date + 1) % 7)
    IN  IF week_start < DateMin \/ week_start + 6 > DateMax
        THEN <<>>
        ELSE <<week_start, week_start + 6>>

week_bounds(target_date) ==
    LET week_start == target_date - (target_date % 7)
    IN  IF week_start < DateMin \/ week_start + 6 > DateMax
        THEN <<>>
        ELSE <<week_start, week_start + 6>>

\* dependencies.py require_roles: the dependency of the approval routes.
require_roles_Anyone(roles, current_user) == TRUE

require_roles(roles, current_user) == users[current_user].role \in roles

ManagerRoles == {"admin", "programme_manager", "project_manager"}

\* db.scalar(select(TimesheetWeekSummary).where(user_id == u, week_start == ws)):
\* the first matching row (0 when there is none).
FindSummary_AnyUser(u, ws) ==
    LET hits == {i \in 1..Len(summaries) : summaries[i].week_start = ws}
    IN  IF hits = {} THEN 0 ELSE CHOOSE i \in hits : \A j \in hits : i <= j

FindSummary(u, ws) ==
    LET hits == {i \in 1..Len(summaries) :
                    summaries[i].user_id = u /\ summaries[i].week_start = ws}
    IN  IF hits = {} THEN 0 ELSE CHOOSE i \in hits : \A j \in hits : i <= j

\* The status a handler sees for (u, ws); "absent" when there is no row.
SeenStatus(u, ws) ==
    IF FindSummary(u, ws) = 0 THEN "absent" ELSE summaries[FindSummary(u, ws)].status

\* The response of a request: the route, who asked, the outcome, and the status
\* of the week concerned when the request arrived.
Response(op, actor, result, prev) ==
    [op |-> op, actor |-> actor, result |-> result, prev |-> prev]

\* A raised HTTPException: the response, and no table changes.
Rejected_LeavesRow(op, actor, result, prev) ==
    /\ last' = Response(op, actor, result, prev)
    /\ summaries' = Append(summaries, [user_id |-> actor, week_start |-> 0, week_end |-> 6,
                                      status |-> "draft", submit_note |-> "",
                                      approval_note |-> "", submitted_at |-> None,
                                      approved_at |-> None, approver_id |-> None])
    /\ UNCHANGED <<users, entries, audits, tasks, leaves, now, inflight>>

Rejected(op, actor, result, prev) ==
    /\ last' = Response(op, actor, result, prev)
    /\ UNCHANGED <<users, entries, audits, summaries, tasks, leaves, now, inflight>>

(* ---- initial state ---------------------------------------------------- *)
\* models.py User.working_hours_mon .. working_hours_sun: the column defaults,
\* Monday first.
DefaultHours == <<8, 8, 8, 8, 8, 0, 0>>

Init ==
    /\ users = [u \in UserIds |-> [role |-> RoleOf(u), manager_id |-> None,
                                   working_hours |-> DefaultHours]]
    /\ entries = <<>>
    /\ audits = <<>>
    /\ summaries = <<>>
    /\ tasks = [t \in TaskIds |-> 0]
    /\ leaves = <<>>
    /\ now = 1
    /\ last = Response("start", None, "OK", "absent")
    /\ inflight = <<>>

(* ---- the clock read by datetime.utcnow() ------------------------------ *)
Tick ==
    /\ now < MaxTime
    /\ now' = now + 1
    /\ UNCHANGED <<users, entries, audits, summaries, tasks, leaves, last, inflight>>

(* ---- week lifecycle --------------------------------------------------- *)
\* TimesheetWeekSummary(user_id, week_start, week_end) with the column defaults.
NewSummary(user_id, week_start, week_end) ==
    [user_id |-> user_id, week_start |-> week_start, week_end |-> week_end,
     status |-> "draft", submit_note |-> "", approval_note |-> "",
     submitted_at |-> None, approved_at |-> None, approver_id |-> None]

\* main.py 516: an approved week is not resubmitted.
SubmitBlocked_Never(summary) == FALSE

SubmitBlocked(summary) == summary.status = "approved"

\* main.py 518-520
Submitted_KeepTimestamp(summary, submit_note) ==
    [summary EXCEPT !.status = "submitted", !.submit_note = submit_note,
                    !.submitted_at = IF @ = None THEN now ELSE @]

Submitted(summary, submit_note) ==
    [summary EXCEPT !.status = "submitted", !.submit_note = submit_note,
                    !.submitted_at = now]

\* main.py 541-543
Unsubmitted_KeepNote(summary) ==
    [summary EXCEPT !.status = "draft", !.submitted_at = None]

Unsubmitted(summary) ==
    [summary EXCEPT !.status = "draft", !.submit_note = "", !.submitted_at = None]

\* main.py 571-574
Approved_NoApprover(summary, actor, approval_note) ==
    [summary EXCEPT !.status = "approved", !.approval_note = approval_note,
                    !.approved_at = now]

Approved(summary, actor, approval_note) ==
    [summary EXCEPT !.status = "approved", !.approver_id = actor,
                    !.approval_note = approval_note, !.approved_at = now]

\* main.py 602-605
Unapproved_KeepApprover(summary, approval_note) ==
    [summary EXCEPT !.status = "submitted", !.approval_note = approval_note,
                    !.approved_at = None]

Unapproved(summary, approval_note) ==
    [summary EXCEPT !.status = "submitted", !.approval_note = approval_note,
                    !.approved_at = None, !.approver_id = None]

\* main.py 564: only a submitted week is approved.
ApproveBlocked_Always(summary) == TRUE

ApproveBlocked_OnlyApproved(summary) == summary.status = "approved"

ApproveBlocked(summary) == summary.status # "submitted"

\* main.py 566-570: the line-manager check of approve-week.
ApproveAllowed_Anyone(actor, summary) == TRUE

ApproveAllowed(actor, summary) ==
    ~(users[actor].role # "admin" /\ users[summary.user_id].manager_id # actor)

\* main.py 597-601: the line-manager check of unapprove-week.
UnapproveAllowed_ApproverOnly(actor, summary) ==
    /\ ~(users[actor].role # "admin" /\ users[summary.user_id].manager_id # actor)
    /\ summary.approver_id = actor

UnapproveAllowed(actor, summary) ==
    ~(users[actor].role # "admin" /\ users[summary.user_id].manager_id # actor)

\* The requests in flight without the one at position i that has finished.
RemoveAt(requests, i) ==
    [j \in 1..(Len(requests) - 1) |-> IF j < i THEN requests[j] ELSE requests[j + 1]]

\* POST /timesheets/submit-week served concurrently, in its two database
\* steps.  main.py 502-520: the request reads the row of the week (a new row is
\* only added to its session) and sets the fields on its own copy.
submit_timesheet_week_read(current_user, week_start, submit_note) ==
    LET idx  == FindSummary(current_user, week_start)
        prev == SeenStatus(current_user, week_start)
        week_end == week_start + 6
        summary == IF idx = 0 THEN NewSummary(current_user, week_start, week_end)
                              ELSE summaries[idx]
    IN  IF SubmitBlocked(summary)
        THEN Rejected("submit_week", current_user, "ALREADY_APPROVED", prev)
        ELSE /\ inflight' = Append(inflight,
                                   [kind |-> "submit", row |-> idx, prev |-> prev,
                                    loaded |-> summary,
                                    summary |-> Submitted(summary, submit_note)])
             /\ last' = Response("submit_week", current_user, "PENDING", prev)
             /\ UNCHANGED <<users, entries, audits, summaries, tasks, leaves, now>>

\* main.py 521: db.commit() of the request at position i: an INSERT of the new
\* row when the request had read none, else an UPDATE of the row it had read;
\* the unit of work writes the columns whose value differs from the loaded one.
submit_timesheet_week_commit(i) ==
    /\ i \in DOMAIN inflight
    /\ inflight[i].kind = "submit"
    /\ LET request == inflight[i]
       IN  /\ summaries' =
                 IF request.row = 0
                 THEN Append(summaries, request.summary)
                 ELSE [summaries EXCEPT ![request.row] =
                          [@ EXCEPT !.status =
                                        IF request.summary.status # request.loaded.status
                                        THEN request.summary.status ELSE @,
                                    !.submit_note =
                                        IF request.summary.submit_note
                                              # request.loaded.submit_note
                                        THEN request.summary.submit_note ELSE @,
                                    !.submitted_at =
                                        IF request.summary.submitted_at
                                              # request.loaded.submitted_at
                                        THEN request.summary.submitted_at ELSE @]]
           /\ last' = Response("submit_week", request.summary.user_id, "OK", request.prev)
    /\ inflight' = RemoveAt(inflight, i)
    /\ UNCHANGED <<users, entries, audits, tasks, leaves, now>>

\* POST /timesheets/submit-week
submit_timesheet_week(current_user, week_start, submit_note) ==
    LET idx  == FindSummary(current_user, week_start)
        prev == SeenStatus(current_user, week_start)
        week_end == week_start + 6
        summary == IF idx = 0 THEN NewSummary(current_user, week_start, week_end)
                              ELSE summaries[idx]
    IN  IF SubmitBlocked(summary)
        THEN Rejected("submit_week", current_user, "ALREADY_APPROVED", prev)
        ELSE /\ summaries' =
                  IF idx = 0
                  THEN Append(summaries, Submitted(summary, submit_note))
                  ELSE [summaries EXCEPT ![idx] = Submitted(summary, submit_note)]
             /\ last' = Response("submit_week", current_user, "OK", prev)
             /\ UNCHANGED <<users, entries, audits, tasks, leaves, now, inflight>>

\* POST /timesheets/unsubmit-week
unsubmit_timesheet_week(current_user, week_start) ==
    LET idx  == FindSummary(current_user, week_start)
        prev == SeenStatus(current_user, week_start)
    IN  IF idx = 0
        THEN Rejected("unsubmit_week", current_user, "NOT_FOUND", prev)
        ELSE IF summaries[idx].status = "approved"
        THEN Rejected("unsubmit_week", current_user, "ALREADY_APPROVED", prev)
        ELSE /\ summaries' = [summaries EXCEPT ![idx] = Unsubmitted(summaries[idx])]
             /\ last' = Response("unsubmit_week", current_user, "OK", prev)
             /\ UNCHANGED <<users, entries, audits, tasks, leaves, now, inflight>>

\* POST /timesheets/approve-week
approve_timesheet_week(actor, week_start, user_id, approval_note) ==
    LET idx  == FindSummary(user_id, week_start)
        prev == SeenStatus(user_id, week_start)
    IN  IF ~require_roles(ManagerRoles, actor)
        THEN Rejected("approve_week", actor, "FORBIDDEN", prev)
        ELSE IF idx = 0
        THEN Rejected("approve_week", actor, "NOT_FOUND", prev)
        ELSE IF ApproveBlocked(summaries[idx])
        THEN Rejected("approve_week", actor, "NOT_SUBMITTED", prev)
        ELSE IF ~ApproveAllowed(actor, summaries[idx])
        THEN Rejected("approve_week", actor, "FORBIDDEN", prev)
        ELSE /\ summaries' = [summaries EXCEPT ![idx] =
                                  Approved(summaries[idx], actor, approval_note)]
             /\ last' = Response("approve_week", actor, "OK", prev)
             /\ UNCHANGED <<users, entries, audits, tasks, leaves, now, inflight>>

\* POST /timesheets/unapprove-week
unapprove_timesheet_week(actor, week_start, user_id, approval_note) ==
    LET idx  == FindSummary(user_id, week_start)
        prev == SeenStatus(user_id, week_start)
    IN  IF ~require_roles(ManagerRoles, actor)
        THEN Rejected("unapprove_week", actor, "FORBIDDEN", prev)
        ELSE IF idx = 0
        THEN Rejected("unapprove_week", actor, "NOT_FOUND", prev)
        ELSE IF summaries[idx].status # "approved"
        THEN Rejected("unapprove_week", actor, "NOT_APPROVED", prev)
        ELSE IF ~UnapproveAllowed(actor, summaries[idx])
        THEN Rejected("unapprove_week", actor, "FORBIDDEN", prev)
        ELSE /\ summaries' = [summaries EXCEPT ![idx] =
                                  Unapproved(summaries[idx], approval_note)]
             /\ last' = Response("unapprove_week", actor, "OK", prev)
             /\ UNCHANGED <<users, entries, audits, tasks, leaves, now, inflight>>

(* ---- string serialisation used by the audit rows ---------------------- *)
DigitStr(n) ==
    CASE n = 0 -> "0" [] n = 1 -> "1" [] n = 2 -> "2" [] n = 3 -> "3" [] n = 4 -> "4"
      [] n = 5 -> "5" [] n = 6 -> "6" [] n = 7 -> "7" [] n = 8 -> "8" [] OTHER -> "9"

RECURSIVE NatStr(_)
NatStr(n) == IF n < 10 THEN DigitStr(n) ELSE NatStr(n \div 10) \o DigitStr(n % 10)

\* str(int)
IntStr(n) == IF n < 0 THEN "-" \o NatStr(0 - n) ELSE NatStr(n)

\* str(float) of a whole number of hours: 5.0 -> "5.0"
FloatStr_Int(h) == IntStr(h)

FloatStr(h) == IntStr(h) \o ".0"

\* str(date): day 0 is 2024-06-10
DateStr(d) == "2024-06-" \o NatStr(10 + d)

\* str(x or ""): None and 0 are falsy
IdStr(x) == IF x = None \/ x = 0 THEN "" ELSE IntStr(x)

AuditRow(entry_id, actor_id, action, field_name, old_value, new_value) ==
    [entry_id |-> entry_id, actor_id |-> actor_id, action |-> action,
     field_name |-> field_name, old_value |-> old_value, new_value |-> new_value,
     created_at |-> now]

(* ---- entry store ------------------------------------------------------ *)
\* The week gate of the entry routes: the summary of (user, Monday of the date)
\* exists and is approved.
WeekApproved(user_id, entry_date) ==
    LET idx == FindSummary(user_id, week_bounds(entry_date)[1])
    IN  idx # 0 /\ summaries[idx].status = "approved"

\* The status of the week of a posted date, as the response records it.
WeekSeen(user_id, entry_date) ==
    IF week_bounds(entry_date) = <<>>
    THEN "absent"
    ELSE SeenStatus(user_id, week_bounds(entry_date)[1])

\* The commit shared by both create routes (main.py 400-424 and 1110-1127).
InsertEntry_WithSummary(op, prev, current_user, entry_date, hours, description, project_id, task_id) ==
    /\ entries' = Append(entries,
                         [user_id |-> current_user, project_id |-> project_id,
                          task_id |-> task_id, entry_date |-> entry_date,
                          hours |-> hours, description |-> description,
                          created_at |-> now, updated_at |-> None])
    /\ audits' = Append(audits,
                        AuditRow(Len(entries) + 1, current_user, "created", "entry", "",
                                 DateStr(entry_date) \o " (" \o FloatStr(hours) \o "h)"))
    /\ tasks' = IF task_id # None /\ task_id # 0 /\ task_id \in DOMAIN tasks
                THEN [tasks EXCEPT ![task_id] = @ + hours]
                ELSE tasks
    /\ last' = Response(op, current_user, "OK", prev)
    /\ summaries' = Append(summaries,
                           NewSummary(current_user, week_bounds(entry_date)[1],
                                      week_bounds(entry_date)[2]))
    /\ UNCHANGED <<users, leaves, now, inflight>>

InsertEntry(op, prev, current_user, entry_date, hours, description, project_id, task_id) ==
    /\ entries' = Append(entries,
                         [user_id |-> current_user, project_id |-> project_id,
                          task_id |-> task_id, entry_date |-> entry_date,
                          hours |-> hours, description |-> description,
                          created_at |-> now, updated_at |-> None])
    /\ audits' = Append(audits,
                        AuditRow(Len(entries) + 1, current_user, "created", "entry", "",
                                 DateStr(entry_date) \o " (" \o FloatStr(hours) \o "h)"))
    /\ tasks' = IF task_id # None /\ task_id # 0 /\ task_id \in DOMAIN tasks
                THEN [tasks EXCEPT ![task_id] = @ + hours]
                ELSE tasks
    /\ last' = Response(op, current_user, "OK", prev)
    /\ UNCHANGED <<users, summaries, leaves, now, inflight>>

\* main.py 387: the hours check of the form route.
HoursRejected_UpperOnly(hours) == hours > 24

HoursRejected(hours) == hours <= 0 \/ hours > 24

\* POST /timesheets/form
create_timesheet_form(current_user, entry_date, hours, description, project_id, task_id) ==
    LET prev == WeekSeen(current_user, entry_date)
    IN  IF HoursRejected(hours)
        THEN Rejected("create_entry_form", current_user, "INVALID_HOURS", prev)
        ELSE IF week_bounds(entry_date) = <<>>
        THEN Rejected("create_entry_form", current_user, "INTERNAL_ERROR", prev)
        ELSE IF WeekApproved(current_user, entry_date)
        THEN Rejected("create_entry_form", current_user, "WEEK_APPROVED", prev)
        ELSE InsertEntry("create_entry_form", prev, current_user, entry_date, hours,
                         description, project_id, task_id)

\* POST /timesheets (JSON); TimesheetCreate validates hours before the handler runs.
create_timesheet(current_user, entry_date, hours, description, project_id, task_id) ==
    LET prev == WeekSeen(current_user, entry_date)
    IN  IF ~(hours > 0 /\ hours <= 24)
        THEN Rejected("create_entry_json", current_user, "INVALID_HOURS", prev)
        ELSE IF week_bounds(entry_date) = <<>>
        THEN Rejected("create_entry_json", current_user, "INTERNAL_ERROR", prev)
        ELSE IF WeekApproved(current_user, entry_date)
        THEN Rejected("create_entry_json", current_user, "WEEK_APPROVED", prev)
        ELSE InsertEntry("create_entry_json", prev, current_user, entry_date, hours,
                         description, project_id, task_id)

\* The (field, old, new) triples collected by edit_timesheet_form, in order.
EditChanges_NoTask(entry, entry_date, hours, description, project_id, task_id) ==
    (IF entry.entry_date # entry_date
     THEN <<<<"entry_date", DateStr(entry.entry_date), DateStr(entry_date)>>>> ELSE <<>>)
    \o (IF entry.hours # hours
        THEN <<<<"hours", FloatStr(entry.hours), FloatStr(hours)>>>> ELSE <<>>)
    \o (IF entry.description # description
        THEN <<<<"description", entry.description, description>>>> ELSE <<>>)
    \o (IF entry.project_id # project_id
        THEN <<<<"project_id", IdStr(entry.project_id), IdStr(project_id)>>>> ELSE <<>>)

EditChanges(entry, entry_date, hours, description, project_id, task_id) ==
    (IF entry.entry_date # entry_date
     THEN <<<<"entry_date", DateStr(entry.entry_date), DateStr(entry_date)>>>> ELSE <<>>)
    \o (IF entry.hours # hours
        THEN <<<<"hours", FloatStr(entry.hours), FloatStr(hours)>>>> ELSE <<>>)
    \o (IF entry.description # description
        THEN <<<<"description", entry.description, description>>>> ELSE <<>>)
    \o (IF entry.project_id # project_id
        THEN <<<<"project_id", IdStr(entry.project_id), IdStr(project_id)>>>> ELSE <<>>)
    \o (IF entry.task_id # task_id
        THEN <<<<"task_id", IdStr(entry.task_id), IdStr(task_id)>>>> ELSE <<>>)

\* The week gate of the edit route (main.py 442-460): the entry's own week, and
\* the destination week when the new date lies in another week.
EditGateOriginalOnly(current_user, entry, entry_date) ==
    WeekApproved(current_user, entry.entry_date)

EditGate(current_user, entry, entry_date) ==
    \/ WeekApproved(current_user, entry.entry_date)
    \/ /\ week_bounds(entry_date) # <<>>
       /\ week_bounds(entry_date)[1] # week_bounds(entry.entry_date)[1]
       /\ WeekApproved(current_user, entry_date)

\* main.py 440: the entry belongs to another user.
NotOwner_Never(entry, current_user) == FALSE

NotOwner(entry, current_user) == entry.user_id # current_user

\* POST /timesheets/{entry_id}/edit
edit_timesheet_form(current_user, entry_id, entry_date, hours, description, project_id, task_id) ==
    IF entry_id \notin DOMAIN entries
    THEN Rejected("edit_entry", current_user, "NOT_FOUND", "absent")
    ELSE IF NotOwner(entries[entry_id], current_user)
    THEN Rejected("edit_entry", current_user, "NOT_FOUND", "absent")
    ELSE
    LET entry == entries[entry_id]
        prev == SeenStatus(current_user, week_bounds(entry.entry_date)[1])
        changes == EditChanges(entry, entry_date, hours, description, project_id, task_id)
    IN  IF EditGate(current_user, entry, entry_date)
        THEN Rejected("edit_entry", current_user, "WEEK_APPROVED", prev)
        ELSE IF week_bounds(entry_date) = <<>>
        THEN Rejected("edit_entry", current_user, "INTERNAL_ERROR", prev)
        ELSE /\ entries' = [entries EXCEPT ![entry_id] =
                                [@ EXCEPT !.entry_date = entry_date, !.hours = hours,
                                          !.description = description,
                                          !.project_id = project_id, !.task_id = task_id,
                                          !.updated_at = now]]
             /\ audits' = audits \o
                    [i \in 1..Len(changes) |->
                        AuditRow(entry_id, current_user, "edited",
                                 changes[i][1], changes[i][2], changes[i][3])]
             /\ last' = Response("edit_entry", current_user, "OK", prev)
             /\ UNCHANGED <<users, summaries, tasks, leaves, now, inflight>>

\* A create request that passed its checks and failed between db.add(entry)
\* (main.py 408) and db.commit() (424): get_db closes the session, the pending
\* INSERTs and the task update are rolled back.
create_timesheet_form_aborted(current_user, entry_date, hours, description, project_id, task_id) ==
    /\ ~HoursRejected(hours)
    /\ week_bounds(entry_date) # <<>>
    /\ ~WeekApproved(current_user, entry_date)
    /\ Rejected("create_entry_form", current_user, "INTERNAL_ERROR",
                WeekSeen(current_user, entry_date))

\* An edit request that passed its checks and failed between the first
\* assignment (main.py 466) and db.commit() (491): nothing is stored.
edit_timesheet_form_aborted(current_user, entry_id, entry_date, hours, description, project_id, task_id) ==
    /\ entry_id \in DOMAIN entries
    /\ ~NotOwner(entries[entry_id], current_user)
    /\ week_bounds(entry_date) # <<>>
    /\ ~EditGate(current_user, entries[entry_id], entry_date)
    /\ Rejected("edit_entry", current_user, "INTERNAL_ERROR",
                WeekSeen(current_user, entries[entry_id].entry_date))

\* POST /timesheets/form served concurrently, in its database steps.
\* main.py 387-407: the checks, with the read of the week's summary, and the
\* new entry in the request's session.
create_timesheet_form_read(current_user, entry_date, hours, description, project_id, task_id) ==
    LET prev == WeekSeen(current_user, entry_date)
    IN  IF HoursRejected(hours)
        THEN Rejected("create_entry_form", current_user, "INVALID_HOURS", prev)
        ELSE IF week_bounds(entry_date) = <<>>
        THEN Rejected("create_entry_form", current_user, "INTERNAL_ERROR", prev)
        ELSE IF WeekApproved(current_user, entry_date)
        THEN Rejected("create_entry_form", current_user, "WEEK_APPROVED", prev)
        ELSE /\ inflight' = Append(inflight,
                                   [kind |-> "create", phase |-> "read", prev |-> prev,
                                    entry |-> [user_id |-> current_user,
                                               project_id |-> project_id,
                                               task_id |-> task_id,
                                               entry_date |-> entry_date,
                                               hours |-> hours,
                                               description |-> description,
                                               created_at |-> now, updated_at |-> None],
                                    task_loaded |-> FALSE, logged_hours |-> 0])
             /\ last' = Response("create_entry_form", current_user, "PENDING", prev)
             /\ UNCHANGED <<users, entries, audits, summaries, tasks, leaves, now>>

\* main.py 408-423: the flush of the entry inside the transaction, and the read
\* of the linked task, whose logged_hours the request raises on its own copy.
create_timesheet_form_flush(i) ==
    /\ i \in DOMAIN inflight
    /\ inflight[i].kind = "create"
    /\ inflight[i].phase = "read"
    /\ LET task_id == inflight[i].entry.task_id
           found == task_id # None /\ task_id # 0 /\ task_id \in DOMAIN tasks
       IN  inflight' = [inflight EXCEPT
                           ![i].phase = "flushed",
                           ![i].task_loaded = found,
                           ![i].logged_hours =
                               IF found THEN tasks[task_id] + inflight[i].entry.hours
                               ELSE 0]
    /\ UNCHANGED <<users, entries, audits, summaries, tasks, leaves, now, last>>

\* main.py 424: db.commit(): the entry, its audit row and the task's new
\* logged_hours, as the request computed it, become durable.
create_timesheet_form_commit(i) ==
    /\ i \in DOMAIN inflight
    /\ inflight[i].kind = "create"
    /\ inflight[i].phase = "flushed"
    /\ LET request == inflight[i]
           entry == request.entry
       IN  /\ entries' = Append(entries, entry)
           /\ audits' = Append(audits,
                               AuditRow(Len(entries) + 1, entry.user_id, "created", "entry",
                                        "", DateStr(entry.entry_date) \o " ("
                                            \o FloatStr(entry.hours) \o "h)"))
           /\ tasks' = IF request.task_loaded
                       THEN [tasks EXCEPT ![entry.task_id] = request.logged_hours]
                       ELSE tasks
           /\ last' = Response("create_entry_form", entry.user_id, "OK", request.prev)
    /\ inflight' = RemoveAt(inflight, i)
    /\ UNCHANGED <<users, summaries, leaves, now>>

\* POST /timesheets/{entry_id}/edit served concurrently.  main.py 439-490: the
\* checks, with the reads of the entry and of the summaries, and the changes
\* on the request's copy of the entry.
edit_timesheet_form_read(current_user, entry_id, entry_date, hours, description, project_id, task_id) ==
    IF entry_id \notin DOMAIN entries
    THEN Rejected("edit_entry", current_user, "NOT_FOUND", "absent")
    ELSE IF NotOwner(entries[entry_id], current_user)
    THEN Rejected("edit_entry", current_user, "NOT_FOUND", "absent")
    ELSE
    LET entry == entries[entry_id]
        prev == SeenStatus(current_user, week_bounds(entry.entry_date)[1])
    IN  IF EditGate(current_user, entry, entry_date)
        THEN Rejected("edit_entry", current_user, "WEEK_APPROVED", prev)
        ELSE IF week_bounds(entry_date) = <<>>
        THEN Rejected("edit_entry", current_user, "INTERNAL_ERROR", prev)
        ELSE /\ inflight' = Append(inflight,
                                   [kind |-> "edit", prev |-> prev, entry_id |-> entry_id,
                                    actor |-> current_user, loaded |-> entry,
                                    entry |-> [entry EXCEPT
                                                  !.entry_date = entry_date,
                                                  !.hours = hours,
                                                  !.description = description,
                                                  !.project_id = project_id,
                                                  !.task_id = task_id,
                                                  !.updated_at = now],
                                    changes |-> EditChanges(entry, entry_date, hours,
                                                            description, project_id,
                                                            task_id)])
             /\ last' = Response("edit_entry", current_user, "PENDING", prev)
             /\ UNCHANGED <<users, entries, audits, summaries, tasks, leaves, now>>

\* main.py 491: db.commit(): an UPDATE of the entry's columns that the request
\* changed, and the INSERTs of its audit rows.
edit_timesheet_form_commit(i) ==
    /\ i \in DOMAIN inflight
    /\ inflight[i].kind = "edit"
    /\ LET request == inflight[i]
           Written(field, stored) ==
               IF request.entry[field] # request.loaded[field]
               THEN request.entry[field] ELSE stored
       IN  /\ entries' = [entries EXCEPT ![request.entry_id] =
                             [@ EXCEPT !.entry_date = Written("entry_date", @),
                                       !.hours = Written("hours", @),
                                       !.description = Written("description", @),
                                       !.project_id = Written("project_id", @),
                                       !.task_id = Written("task_id", @),
                                       !.updated_at = Written("updated_at", @)]]
           /\ audits' = audits \o
                  [k \in 1..Len(request.changes) |->
                      AuditRow(request.entry_id, request.actor, "edited",
                               request.changes[k][1], request.changes[k][2],
                               request.changes[k][3])]
           /\ last' = Response("edit_entry", request.actor, "OK", request.prev)
    /\ inflight' = RemoveAt(inflight, i)
    /\ UNCHANGED <<users, summaries, tasks, leaves, now>>

(* ---- task hours ledger (app/services_timesheets.py) ------------------- *)
\* max(a, b)
Max(a, b) == IF a >= b THEN a ELSE b

\* services_timesheets.py 26: both tasks are given and are the same task.
SameTask_Never(old_task, new_task) == FALSE

SameTask(old_task, new_task) ==
    old_task # None /\ new_task # None /\ old_task = new_task

\* services_timesheets.py 27-28: the same task takes the difference, floored at 0.
LedgerSame(total, old_hours, new_hours) ==
    LET delta == new_hours - old_hours
    IN  Max(total + delta, 0)

\* services_timesheets.py 32: the old task loses the old hours, floored at 0.
LedgerRemove_NoClamp(total, old_hours) == total - old_hours

LedgerRemove_ToZero(total, old_hours) == 0

LedgerRemove(total, old_hours) == Max(total - old_hours, 0)

\* services_timesheets.py 34: the new task gains the new hours.
LedgerAdd_Delta(total, new_hours, old_hours) == total + (new_hours - old_hours)

LedgerAdd(total, new_hours, old_hours) == total + new_hours

\* The totals after apply_task_logged_hours_edit(old_task, new_task, old_hours,
\* new_hours); a task argument is a task id or None.
LedgerResult(totals, old_task, new_task, old_hours, new_hours) ==
    IF SameTask(old_task, new_task)
    THEN [totals EXCEPT ![old_task] = LedgerSame(@, old_hours, new_hours)]
    ELSE LET afterOld == IF old_task # None
                         THEN [totals EXCEPT ![old_task] = LedgerRemove(@, old_hours)]
                         ELSE totals
         IN  IF new_task # None
             THEN [afterOld EXCEPT ![new_task] = LedgerAdd(@, new_hours, old_hours)]
             ELSE afterOld

\* Which of the edit shapes a call is: recorded with the call, the ledger
\* itself returns nothing.
LedgerShape(old_task, new_task) ==
    IF old_task # None /\ new_task = old_task THEN "SAME"
    ELSE IF old_task # None /\ new_task # None THEN "MOVED"
    ELSE IF old_task # None THEN "REMOVED"
    ELSE IF new_task # None THEN "ADDED"
    ELSE "NONE"

\* A call of the ledger on the stored tasks.
apply_task_logged_hours_edit(old_task, new_task, old_hours, new_hours) ==
    /\ tasks' = LedgerResult(tasks, old_task, new_task, old_hours, new_hours)
    /\ last' = Response("ledger", None, LedgerShape(old_task, new_task), "absent")
    /\ UNCHANGED <<users, entries, audits, summaries, leaves, now, inflight>>

(* ---- leave ------------------------------------------------------------ *)
\* POST /leave-requests/form
request_leave_form(current_user, start_date, end_date) ==
    IF end_date < start_date
    THEN Rejected("request_leave", current_user, "INVALID_DATES", "absent")
    ELSE /\ leaves' = Append(leaves, [user_id |-> current_user, start_date |-> start_date,
                                      end_date |-> end_date, status |-> "pending",
                                      reviewer_id |-> None])
         /\ last' = Response("request_leave", current_user, "OK", "absent")
         /\ UNCHANGED <<users, entries, audits, summaries, tasks, now, inflight>>

\* main.py 1149-1153: the line-manager check of the leave decision.
DecideAllowed_AnyManagerRole(current_user, leave) == TRUE

DecideAllowed(current_user, leave) ==
    ~(users[current_user].role # "admin" /\ users[leave.user_id].manager_id # current_user)

\* main.py 1154: the status a decision stores.
Decision_AlwaysApproved(approve) == "approved"

Decision(approve) == IF approve THEN "approved" ELSE "rejected"

\* POST /leave-requests/{request_id}/decision
decide_leave(current_user, request_id, approve) ==
    IF ~require_roles(ManagerRoles, current_user)
    THEN Rejected("decide_leave", current_user, "FORBIDDEN", "absent")
    ELSE IF request_id \notin DOMAIN leaves \/ leaves[request_id].user_id = None
    THEN Rejected("decide_leave", current_user, "NOT_FOUND", "absent")
    ELSE IF ~DecideAllowed(current_user, leaves[request_id])
    THEN Rejected("decide_leave", current_user, "FORBIDDEN", leaves[request_id].status)
    ELSE /\ leaves' = [leaves EXCEPT ![request_id].status = Decision(approve),
                                    ![request_id].reviewer_id = current_user]
         /\ last' = Response("decide_leave", current_user, "OK", leaves[request_id].status)
         /\ UNCHANGED <<users, entries, audits, summaries, tasks, now, inflight>>

(* ---- the timesheets page ---------------------------------------------- *)
\* main.py working_hours_for_day: the user's hours for the weekday of the day.
working_hours_for_day(user, day) == user.working_hours[(day % 7) + 1]

\* main.py 307-320: every day of the user's approved leave requests that
\* overlap the week.
leave_days_AnyStatus(current_user, week_start, week_end) ==
    UNION {leaves[i].start_date .. leaves[i].end_date :
              i \in {j \in 1..Len(leaves) :
                        /\ leaves[j].user_id = current_user
                        /\ leaves[j].end_date >= week_start
                        /\ leaves[j].start_date <= week_end}}

leave_days(current_user, week_start, week_end) ==
    UNION {leaves[i].start_date .. leaves[i].end_date :
              i \in {j \in 1..Len(leaves) :
                        /\ leaves[j].user_id = current_user
                        /\ leaves[j].status = "approved"
                        /\ leaves[j].end_date >= week_start
                        /\ leaves[j].start_date <= week_end}}

\* sum(TimesheetEntry.hours) over the first n entries of the user on the day.
RECURSIVE SumHours(_, _, _)
SumHours(current_user, day, n) ==
    IF n = 0
    THEN 0
    ELSE SumHours(current_user, day, n - 1)
         + (IF entries[n].user_id = current_user /\ entries[n].entry_date = day
            THEN entries[n].hours
            ELSE 0)

\* main.py 321-334 and 338: logged_hours_by_day.get(day, 0.0)
logged_hours_by_day(current_user, day) == SumHours(current_user, day, Len(entries))

\* main.py 340-347: the status of a day.
day_status_NeverPartial(logged, expected) ==
    IF expected <= 0 /\ logged <= 0 THEN "complete"
    ELSE IF logged <= 0 THEN "missing"
    ELSE "complete"

day_status(logged, expected) ==
    IF expected <= 0 /\ logged <= 0 THEN "complete"
    ELSE IF logged <= 0 THEN "missing"
    ELSE IF logged < expected THEN "partial"
    ELSE "complete"

\* main.py 335-356: the seven rows of the week, by offset from Monday.
day_statuses(current_user, week_start, week_end) ==
    [offset \in 0..6 |->
        LET day == week_start + offset
            logged == logged_hours_by_day(current_user, day)
            expected == IF day \in leave_days(current_user, week_start, week_end)
                        THEN 0
                        ELSE working_hours_for_day(users[current_user], day)
        IN  [date |-> day, logged |-> logged, expected |-> expected,
             status |-> day_status(logged, expected)]]

\* GET /timesheets: the page of the current week.  An OverflowError of
\* week_bounds is not handled and is answered 500.
timesheets(current_user, today) ==
    IF week_bounds(today) = <<>>
    THEN Rejected("timesheets", current_user, "INTERNAL_ERROR", "absent")
    ELSE LET week_start == week_bounds(today)[1]
             week_end == week_bounds(today)[2]
         IN  /\ last' = [op |-> "timesheets", actor |-> current_user, result |-> "OK",
                         prev |-> SeenStatus(current_user, week_start),
                         today |-> today, week_start |-> week_start,
                         week_end |-> week_end,
                         day_statuses |-> day_statuses(current_user, week_start, week_end)]
             /\ UNCHANGED <<users, entries, audits, summaries, tasks, leaves, now, inflight>>

(* ---- company administration ------------------------------------------- *)
\* parse_optional_float(raw) or old: a blank field (None) and a posted 0 both
\* keep the stored value.
ParsedOr(parsed, old) == IF parsed = None \/ parsed = 0 THEN old ELSE parsed

\* The working hours form with every field left blank.
BlankHours == <<None, None, None, None, None, None, None>>

\* POST /company/users/update: the line manager and the working hours of a
\* user (admins only); working_hours is the seven parsed fields, Monday first.
update_company_user(actor, user_id, manager_id, working_hours) ==
    IF ~require_roles({"admin"}, actor)
    THEN Rejected("update_company_user", actor, "FORBIDDEN", "absent")
    ELSE IF user_id \notin DOMAIN users
    THEN Rejected("update_company_user", actor, "NOT_FOUND", "absent")
    ELSE /\ users' = [users EXCEPT
                         ![user_id].manager_id = manager_id,
                         ![user_id].working_hours =
                             [i \in 1..7 |-> ParsedOr(working_hours[i], @[i])]]
         /\ last' = Response("update_company_user", actor, "OK", "absent")
         /\ UNCHANGED <<entries, audits, summaries, tasks, leaves, now, inflight>>

\* dependencies.py 37-44: the roles an actor may manage.
can_manage_target(actor, target_role) ==
    target_role \in
        CASE users[actor].role = "admin" ->
                 {"admin", "programme_manager", "project_manager", "staff"}
          [] users[actor].role = "programme_manager" -> {"project_manager", "staff"}
          [] users[actor].role = "project_manager" -> {"staff"}
          [] OTHER -> {}

\* A deleted row keeps its id: the place of the row stays in the table with no
\* owner, so that no query finds it and later rows keep their ids.
DeletedEntry ==
    [user_id |-> None, project_id |-> None, task_id |-> None, entry_date |-> None,
     hours |-> 0, description |-> "", created_at |-> None, updated_at |-> None]

DeletedAudit ==
    [entry_id |-> None, actor_id |-> None, action |-> "", field_name |-> "",
     old_value |-> "", new_value |-> "", created_at |-> None]

DeletedSummary ==
    [user_id |-> None, week_start |-> None, week_end |-> None, status |-> "draft",
     submit_note |-> "", approval_note |-> "", submitted_at |-> None,
     approved_at |-> None, approver_id |-> None]

DeletedLeave ==
    [user_id |-> None, start_date |-> None, end_date |-> None, status |-> "pending",
     reviewer_id |-> None]

\* Rows of other tables that point at the user through a foreign key no
\* relationship of User covers (manager_id, approver_id).
ReferencedElsewhere(user_id) ==
    \/ \E u \in DOMAIN users : u # user_id /\ users[u].manager_id = user_id
    \/ \E i \in DOMAIN summaries :
          summaries[i].user_id \notin {None, user_id} /\ summaries[i].approver_id = user_id

\* The cascades of db.delete(user) (models.py 61-82): the user's entries with
\* their audit rows, the audit rows the user wrote, the user's weeks and leave
\* requests are deleted; the leave requests the user reviewed lose the reviewer.
DeleteCascade(user_id) ==
    /\ users' = [u \in DOMAIN users \ {user_id} |-> users[u]]
    /\ entries' = [i \in DOMAIN entries |->
                      IF entries[i].user_id = user_id THEN DeletedEntry ELSE entries[i]]
    /\ audits' = [i \in DOMAIN audits |->
                     IF \/ audits[i].actor_id = user_id
                        \/ /\ audits[i].entry_id \in DOMAIN entries
                           /\ entries[audits[i].entry_id].user_id = user_id
                     THEN DeletedAudit ELSE audits[i]]
    /\ summaries' = [i \in DOMAIN summaries |->
                        IF summaries[i].user_id = user_id THEN DeletedSummary
                        ELSE summaries[i]]
    /\ leaves' = [i \in DOMAIN leaves |->
                     IF leaves[i].user_id = user_id THEN DeletedLeave
                     ELSE IF leaves[i].reviewer_id = user_id
                     THEN [leaves[i] EXCEPT !.reviewer_id = None]
                     ELSE leaves[i]]

\* DELETE /users/{user_id}.  When another table still points at the user, the
\* commit either fails on the foreign key (the database enforces it) or goes
\* through and leaves the reference behind (it does not).
delete_user(actor, user_id) ==
    IF ~require_roles(ManagerRoles, actor)
    THEN Rejected("delete_user", actor, "FORBIDDEN", "absent")
    ELSE IF user_id \notin DOMAIN users
    THEN Rejected("delete_user", actor, "NOT_FOUND", "absent")
    ELSE IF ~can_manage_target(actor, users[user_id].role)
    THEN Rejected("delete_user", actor, "FORBIDDEN", "absent")
    ELSE \/ /\ ReferencedElsewhere(user_id)
            /\ Rejected("delete_user", actor, "INTEGRITY_ERROR", "absent")
         \/ /\ DeleteCascade(user_id)
            /\ last' = Response("delete_user", actor, "OK", "absent")
            /\ UNCHANGED <<tasks, now, inflight>>

(* ---- inputs of the requests ------------------------------------------- *)
\* Days: 0 and 7 are Mondays, 2 is a Wednesday, 3 a Thursday.
Mondays == {0, 7}

EntryDates == {0, 3, 7}

Notes == {"", "note"}

Descriptions == {"work", "review"}

HoursInputs == {0, 5, 25}

Staff == CHOOSE u \in UserIds : RoleOf(u) = "staff"

\* Rows the bounded tables still have room for.
RoomForEntry == Len(entries) < MaxEntries /\ Len(audits) < MaxAudits

RoomForEdit(id, d, h, desc, p, t) ==
    id \in DOMAIN entries =>
        Len(audits) + Len(EditChanges(entries[id], d, h, desc, p, t)) <= MaxAudits

(* ---- request mixes ---------------------------------------------------- *)
\* Entry requests of the given users.
EntrySteps(who, dates, hrs, descs, projs, tsks) ==
    \/ \E u \in who, d \in dates, h \in hrs, desc \in descs, p \in projs, t \in tsks :
          RoomForEntry /\ create_timesheet_form(u, d, h, desc, p, t)
    \/ \E u \in who, d \in dates, h \in hrs, desc \in descs, p \in projs, t \in tsks :
          RoomForEntry /\ create_timesheet(u, d, h, desc, p, t)
    \/ \E u \in who, id \in 1..MaxEntries, d \in dates, h \in hrs, desc \in descs,
          p \in projs, t \in tsks :
          RoomForEdit(id, d, h, desc, p, t) /\ edit_timesheet_form(u, id, d, h, desc, p, t)

\* Week requests: owners submit and unsubmit, actors approve and unapprove.
WeekSteps(owners, actors, starts, snotes, anotes) ==
    \/ \E u \in owners, ws \in starts, n \in snotes : submit_timesheet_week(u, ws, n)
    \/ \E u \in owners, ws \in starts : unsubmit_timesheet_week(u, ws)
    \/ \E a \in actors, ws \in starts, u \in owners, n \in anotes :
          approve_timesheet_week(a, ws, u, n)
    \/ \E a \in actors, ws \in starts, u \in owners, n \in anotes :
          unapprove_timesheet_week(a, ws, u, n)

LeaveSteps(owners, actors, dates) ==
    \/ \E u \in owners, s \in dates, e \in dates :
          Len(leaves) < MaxLeaves /\ request_leave_form(u, s, e)
    \/ \E a \in actors, id \in 1..MaxLeaves, ap \in BOOLEAN : decide_leave(a, id, ap)

AdminFormSteps(actors, targets, managers, forms) ==
    \E a \in actors, u \in targets, m \in managers, f \in forms :
       update_company_user(a, u, m, f)

AdminSteps(actors, targets, managers) ==
    AdminFormSteps(actors, targets, managers, {BlankHours})

(* ---- specifications --------------------------------------------------- *)
\* Spec: the entries of one member of staff (user 4), a colleague who is also
\* the line manager once the administrator says so (user 3), and the weeks.
EntryUsers == {3, Staff}

WeekOwners == {Staff}

Approvers == {1, 3}

Next ==
    \/ EntrySteps(EntryUsers, EntryDates, HoursInputs, Descriptions, {None}, {None})
    \/ WeekSteps(WeekOwners, Approvers, Mondays, {""}, {""})
    \/ AdminSteps({1}, {Staff}, {3})

Spec == Init /\ [][Next]_vars

\* SpecWindow: as Spec, in one calendar week, with the week_start values a client
\* can post (a Monday or a Wednesday).
WindowStarts == {0, 2}

WindowDates == {0, 3}

NextWindow ==
    \/ EntrySteps(WeekOwners, WindowDates, HoursInputs, {"work"}, {None}, {None})
    \/ WeekSteps(WeekOwners, {1}, WindowStarts, {""}, {""})

SpecWindow == Init /\ [][NextWindow]_vars

\* SpecApproval: who may approve, unapprove and decide leave.  Users 3 and 4 own
\* weeks and leave; the administrator gives them user 2 or user 4 as line manager.
ApprovalTargets == {3, 4}

ApprovalManagers == {None, 2, 4}

ApprovalWeek == {0}

NextApproval ==
    \/ WeekSteps(ApprovalTargets, UserIds, ApprovalWeek, {""}, Notes)
    \/ AdminSteps({1}, ApprovalTargets, ApprovalManagers)

SpecApproval == Init /\ [][NextApproval]_vars

\* SpecLeave: the week and the leave of one member of staff under the same actors.
NextLeave ==
    \/ WeekSteps({Staff}, UserIds, ApprovalWeek, {""}, {""})
    \/ LeaveSteps({Staff}, UserIds, ApprovalWeek)
    \/ AdminSteps({1}, {Staff}, ApprovalManagers)

SpecLeave == Init /\ [][NextLeave]_vars

\* SpecLifecycle: submitting and unsubmitting while the clock advances.
LifecycleOwners == {3, 4}

LifecycleWeek == {0}

NextLifecycle ==
    \/ Tick
    \/ WeekSteps(LifecycleOwners, {1}, LifecycleWeek, Notes, {""})

SpecLifecycle == Init /\ [][NextLifecycle]_vars

\* SpecLedger: calls of the ledger on two tasks next to the entries, linked to
\* a task or to none, of one member of staff.
TaskOptions == TaskIds \cup {None}

LedgerHours == {0, 3, 5}

\* The task link of the entries stored next to the ledger calls.
LedgerEntryTasks == {None, 1}

LedgerRoom == \A t \in TaskIds : tasks[t] <= MaxLogged

LedgerSteps(opts, hrs) ==
    \E o \in opts, n \in opts, oh \in hrs, nh \in hrs :
        LedgerRoom /\ apply_task_logged_hours_edit(o, n, oh, nh)

NextLedger ==
    \/ LedgerSteps(TaskOptions, LedgerHours)
    \/ EntrySteps({Staff}, {0}, {5}, {"work"}, {None}, LedgerEntryTasks)

SpecLedger == Init /\ [][NextLedger]_vars

\* SpecTasks: the entries of one member of staff, linked to a task or to none,
\* in a week that is submitted and approved.
TaskHours == {0, 3, 5, 25}

NextTasks ==
    \/ EntrySteps({Staff}, {0}, TaskHours, Descriptions, {None}, TaskOptions)
    \/ WeekSteps({Staff}, {1}, {0}, {""}, {""})

SpecTasks == Init /\ [][NextTasks]_vars

\* SpecAudit: one entry of one member of staff and its edits, each of the five
\* editable fields with two values, with room for the rows of several edits.
AuditDates == {0, 3}

AuditHours == {3, 5}

AuditLinks == {None, 1}

RoomForEditRows(id, d, h, desc, p, t) ==
    id \in DOMAIN entries =>
        Len(audits) + Len(EditChanges(entries[id], d, h, desc, p, t)) <= MaxEditAudits

NextAudit ==
    \/ \E d \in {0}, h \in {3}, desc \in {"work"} :
          RoomForEntry /\ create_timesheet_form(Staff, d, h, desc, None, None)
    \/ \E u \in EntryUsers, id \in 1..MaxEntries, d \in AuditDates, h \in AuditHours,
          desc \in Descriptions, p \in AuditLinks, t \in AuditLinks :
          RoomForEditRows(id, d, h, desc, p, t)
          /\ edit_timesheet_form(u, id, d, h, desc, p, t)

SpecAudit == Init /\ [][NextAudit]_vars

\* SpecDelete: the entries and the week of one member of staff, written and
\* approved while the accounts exist, and the deletion of accounts.  Only a
\* user who still exists can send a request.
Existing(us) == us \cap DOMAIN users

DeleteActors == {1, 3}

DeleteTargets == {3, Staff}

DeleteSteps(actors, targets) ==
    \E a \in actors, u \in targets : delete_user(a, u)

NextDelete ==
    \/ EntrySteps(Existing({Staff}), {0}, {5}, Descriptions, {None}, {None})
    \/ WeekSteps(Existing({Staff}), Existing(DeleteActors), {0}, {""}, {""})
    \/ AdminSteps(Existing({1}), Existing({Staff}), {3})
    \/ DeleteSteps(Existing(DeleteActors), DeleteTargets)

SpecDelete == Init /\ [][NextDelete]_vars

\* SpecErrors: the entries, the week and the leave of one member of staff, with
\* actors of every kind, so that each refusal of the routes occurs.
ErrorActors == {1, 3, Staff}

ErrorHours == {0, 5}

NextErrors ==
    \/ EntrySteps({3, Staff}, {0}, ErrorHours, {"work"}, {None}, {None})
    \/ WeekSteps({Staff}, ErrorActors, {0}, {""}, {""})
    \/ LeaveSteps({Staff}, ErrorActors, {0})
    \/ AdminSteps({1}, {Staff}, {None, 3})

SpecErrors == Init /\ [][NextErrors]_vars

\* SpecCalendar: the page of the current week on days around 2024-06-10 and
\* at both ends of the calendar, and entries dated in that week or on the
\* last day of the calendar.
Todays == {DateMin, DateMin + 1} \cup (-8 .. 8) \cup (DateMax - 7 .. DateMax)

CalendarEntryDates == {0, DateMax}

NextCalendar ==
    \/ \E u \in EntryUsers, d \in Todays : timesheets(u, d)
    \/ EntrySteps({Staff}, CalendarEntryDates, {5}, {"work"}, {None}, {None})

SpecCalendar == Init /\ [][NextCalendar]_vars

\* SpecConcurrent: submit-week requests of one member of staff for one week,
\* served concurrently, with the administrator's approvals in between.
ConcurrentOwners == {Staff}

NextConcurrent ==
    \/ \E u \in ConcurrentOwners, ws \in ApprovalWeek, n \in {""} :
          Len(inflight) < MaxInflight /\ submit_timesheet_week_read(u, ws, n)
    \/ \E i \in 1..MaxInflight : submit_timesheet_week_commit(i)
    \/ WeekSteps(ConcurrentOwners, {1}, ApprovalWeek, {""}, {""})

SpecConcurrent == Init /\ [][NextConcurrent]_vars

\* SpecView: the page of the week of 2024-06-10 for one member of staff, with
\* that user's entries, leave requests of that user and of a colleague decided
\* by the administrator, and changes of the user's working hours.
ViewTodays == {3}

ViewDates == {0, 5}

ViewHours == {4, 8}

ViewForms == {<<4, None, None, None, None, 6, None>>,
              <<8, None, None, None, None, None, None>>}

NextView ==
    \/ \E u \in {Staff}, d \in ViewTodays : timesheets(u, d)
    \/ \E d \in ViewDates, h \in ViewHours :
          /\ Len(entries) < MaxViewEntries
          /\ create_timesheet_form(Staff, d, h, "work", None, None)
    \/ LeaveSteps(EntryUsers, {1}, ViewDates)
    \/ AdminFormSteps({1}, {Staff}, {None}, ViewForms)

SpecView == Init /\ [][NextView]_vars

\* SpecAtomic: the entries of one member of staff, linked to a task or to
\* none, with requests that fail before their commit.
AtomicHours == {3, 5}

NextAtomic ==
    \/ EntrySteps({Staff}, {0}, AtomicHours, Descriptions, {None}, TaskOptions)
    \/ \E h \in AtomicHours, t \in TaskOptions :
          RoomForEntry /\ create_timesheet_form_aborted(Staff, 0, h, "work", None, t)
    \/ \E id \in 1..MaxEntries, h \in AtomicHours, t \in TaskOptions :
          edit_timesheet_form_aborted(Staff, id, 0, h, "work", None, t)

SpecAtomic == Init /\ [][NextAtomic]_vars

\* SpecEntryRace: create and edit requests of one member of staff served
\* concurrently with the submission and the administrator's approval of the
\* week of their dates.
RaceHours == {3, 5}

RoomForRace ==
    Len(entries) + Cardinality({i \in DOMAIN inflight : inflight[i].kind = "create"})
       < MaxRaceEntries

NextEntryRace ==
    \/ \E h \in {3} :
          /\ Len(inflight) < MaxInflight
          /\ RoomForRace
          /\ create_timesheet_form_read(Staff, 0, h, "work", None, None)
    \/ \E i \in 1..MaxInflight : create_timesheet_form_flush(i)
    \/ \E i \in 1..MaxInflight : create_timesheet_form_commit(i)
    \/ \E id \in 1..MaxRaceEntries, h \in RaceHours :
          /\ Len(inflight) < MaxInflight
          /\ Len(audits) + 2 * (Len(inflight) + 1) <= MaxEditAudits
          /\ edit_timesheet_form_read(Staff, id, 0, h, "work", None, None)
    \/ \E i \in 1..MaxInflight : edit_timesheet_form_commit(i)
    \/ WeekSteps({Staff}, {1}, {0}, {""}, {""})

SpecEntryRace == Init /\ [][NextEntryRace]_vars

\* SpecTaskRace: create requests of one member of staff, linked to a task or
\* to none, served concurrently.
NextTaskRace ==
    \/ \E h \in RaceHours, t \in LedgerEntryTasks :
          /\ Len(inflight) < MaxInflight
          /\ RoomForRace
          /\ create_timesheet_form_read(Staff, 0, h, "work", None, t)
    \/ \E i \in 1..MaxInflight : create_timesheet_form_flush(i)
    \/ \E i \in 1..MaxInflight : create_timesheet_form_commit(i)

SpecTaskRace == Init /\ [][NextTaskRace]_vars

\* SpecSelfManaged: a project manager and a member of staff who own weeks and
\* act on them, while the administrator sets their line manager to nobody, to
\* the other one or to themselves.
SelfOwners == {3, Staff}

SelfManagers == {None, 3, Staff}

NextSelfManaged ==
    \/ WeekSteps(SelfOwners, SelfOwners, ApprovalWeek, {""}, Notes)
    \/ AdminSteps({1}, SelfOwners, SelfManagers)

SpecSelfManaged == Init /\ [][NextSelfManaged]_vars

\* SpecReview: the leave of one member of staff, decided by the administrator
\* or by the project manager while the administrator makes them the line
\* manager, and the deletion of the project manager's account.
ReviewManagers == {None, 3}

NextReview ==
    \/ LeaveSteps(Existing({Staff}), Existing(DeleteActors), WindowDates)
    \/ AdminSteps(Existing({1}), Existing({Staff}), ReviewManagers)
    \/ DeleteSteps(Existing({1}), {3})

SpecReview == Init /\ [][NextReview]_vars

\* SpecFrame: two owners of a week each, the administrator who approves, and
\* next to them an entry linked to a task and a leave request of the member of
\* staff.
FrameOwners == {3, Staff}

FrameActors == {1}

NextFrame ==
    \/ EntrySteps({Staff}, {0}, {5}, {"work"}, {None}, {1})
    \/ WeekSteps(FrameOwners, FrameActors, ApprovalWeek, {""}, {""})
    \/ LeaveSteps({Staff}, {1}, {0})

SpecFrame == Init /\ [][NextFrame]_vars

(* ---- properties ------------------------------------------------------- *)
\* The user's entries dated within [lo, hi], with the fields an edit can change.
EntriesWithin(es, u, lo, hi) ==
    {<<id, es[id].entry_date, es[id].hours, es[id].description,
       es[id].project_id, es[id].task_id>> :
        id \in {i \in DOMAIN es : es[i].user_id = u /\ lo <= es[i].entry_date
                                                   /\ es[i].entry_date <= hi}}

\* C1: while a summary row stays approved, the set of its user's entries dated
\* within the row's week (week_start to week_end), and their date, hours,
\* description, project and task, do not change.
C1_ApprovedWeekFrozen ==
    [][\A i \in DOMAIN summaries :
          (summaries[i].status = "approved" /\ summaries'[i].status = "approved")
          => EntriesWithin(entries', summaries[i].user_id,
                           summaries[i].week_start, summaries[i].week_end)
             = EntriesWithin(entries, summaries[i].user_id,
                             summaries[i].week_start, summaries[i].week_end)]_vars

\* The status of the summary of the calendar week (Monday to Sunday) of a date.
CalendarWeekStatus(u, d) ==
    LET monday == 7 * (d \div 7)
        rows == {i \in DOMAIN summaries :
                    summaries[i].user_id = u /\ summaries[i].week_start = monday}
    IN  IF rows = {} THEN "absent" ELSE summaries[CHOOSE i \in rows : TRUE].status

NothingStored == entries' = entries /\ audits' = audits /\ tasks' = tasks

\* C2: on both create routes, a create into a calendar week whose summary is
\* approved fails, whatever the hours and the day, and stores nothing; when the
\* summary is absent, draft or submitted the create is never refused for the
\* week, and with valid hours it stores the entry.
C2_CreateWeekGate ==
    [][last'.op \in {"create_entry_form", "create_entry_json"} =>
       \A u \in EntryUsers, d \in EntryDates, h \in HoursInputs, desc \in Descriptions :
          (\/ create_timesheet_form(u, d, h, desc, None, None)
           \/ create_timesheet(u, d, h, desc, None, None))
          => IF CalendarWeekStatus(u, d) = "approved"
             THEN last'.result \in {"WEEK_APPROVED", "INVALID_HOURS"} /\ NothingStored
             ELSE /\ last'.result # "WEEK_APPROVED"
                  /\ (0 < h /\ h <= 24) =>
                        /\ last'.result = "OK"
                        /\ Len(entries') = Len(entries) + 1
                        /\ entries'[Len(entries')].entry_date = d
                        /\ entries'[Len(entries')].user_id = u]_vars

\* C2 witness: a create with valid hours was refused because the week is approved.
C2_Witness ==
    /\ last.op \in {"create_entry_form", "create_entry_json"}
    /\ last.result = "WEEK_APPROVED"
    /\ last.prev = "approved"

\* C3: an edit by the owner is refused with WEEK_APPROVED when the calendar week
\* of the stored date is approved and when the new date lies in another calendar
\* week that is approved; it then changes nothing.  So no step moves an entry
\* out of or into an approved week.
C3_EditWeekGate ==
    [][/\ last'.op = "edit_entry" =>
          \A u \in EntryUsers, id \in DOMAIN entries, d \in EntryDates,
            h \in HoursInputs, desc \in Descriptions :
            (/\ edit_timesheet_form(u, id, d, h, desc, None, None)
             /\ entries[id].user_id = u
             /\ \/ CalendarWeekStatus(u, entries[id].entry_date) = "approved"
                \/ CalendarWeekStatus(u, d) = "approved")
            => last'.result = "WEEK_APPROVED" /\ NothingStored
       /\ \A id \in DOMAIN entries :
            entries'[id].entry_date \div 7 # entries[id].entry_date \div 7
            => /\ CalendarWeekStatus(entries[id].user_id, entries[id].entry_date) # "approved"
               /\ CalendarWeekStatus(entries[id].user_id, entries'[id].entry_date) # "approved"
      ]_vars

\* C3 witness: an edit that would move an entry from a week that is not approved
\* into a week approved by the owner's line manager was refused.
C3_Witness ==
    /\ last.op = "edit_entry"
    /\ last.result = "WEEK_APPROVED"
    /\ last.prev # "approved"
    /\ \E i \in DOMAIN summaries :
          /\ summaries[i].status = "approved"
          /\ summaries[i].approver_id = users[summaries[i].user_id].manager_id

(* ---- approval gate ---------------------------------------------------- *)
RowsIn(tbl, u, ws) == {i \in DOMAIN tbl : tbl[i].user_id = u /\ tbl[i].week_start = ws}

\* The status of the summary of (u, ws), "absent" when there is no row.
RowStatus(u, ws) ==
    IF RowsIn(summaries, u, ws) = {} THEN "absent"
    ELSE summaries[CHOOSE i \in RowsIn(summaries, u, ws) : TRUE].status

OtherRowsUnchanged(u, ws) ==
    \A i \in DOMAIN summaries : i \notin RowsIn(summaries, u, ws) => summaries'[i] = summaries[i]

TablesUnchanged == UNCHANGED <<users, entries, audits, summaries, tasks, leaves>>

\* The gate as the claim words it.
GateAsClaimed(a, u) == users[a].role = "admin" \/ users[u].manager_id = a

\* The gate with the role requirement of the approval routes.
GateWithRole(a, u) ==
    \/ users[a].role = "admin"
    \/ /\ users[a].role \in {"programme_manager", "project_manager"}
       /\ users[u].manager_id = a

\* C4 as claimed: on a week in the state the operation needs, approve and
\* unapprove succeed exactly when the actor is an administrator or the target's
\* line manager, whatever the actor's role, and are refused FORBIDDEN otherwise.
C4_GateAsClaimed ==
    [][last'.op \in {"approve_week", "unapprove_week"} =>
       \A a \in {last'.actor}, u \in ApprovalTargets, ws \in ApprovalWeek, n \in Notes :
          /\ (approve_timesheet_week(a, ws, u, n) /\ RowStatus(u, ws) = "submitted")
             => last'.result = IF GateAsClaimed(a, u) THEN "OK" ELSE "FORBIDDEN"
          /\ (unapprove_timesheet_week(a, ws, u, n) /\ RowStatus(u, ws) = "approved")
             => last'.result = IF GateAsClaimed(a, u) THEN "OK" ELSE "FORBIDDEN"]_vars

\* C4 amended: approve and unapprove succeed exactly when the actor is an
\* administrator, or a programme or project manager who is the target's line
\* manager; every other actor, a line manager with role staff included, is
\* refused FORBIDDEN.
C4_GateWithRole ==
    [][last'.op \in {"approve_week", "unapprove_week"} =>
       \A a \in {last'.actor}, u \in ApprovalTargets, ws \in ApprovalWeek, n \in Notes :
          /\ (approve_timesheet_week(a, ws, u, n) /\ RowStatus(u, ws) = "submitted")
             => last'.result = IF GateWithRole(a, u) THEN "OK" ELSE "FORBIDDEN"
          /\ (unapprove_timesheet_week(a, ws, u, n) /\ RowStatus(u, ws) = "approved")
             => last'.result = IF GateWithRole(a, u) THEN "OK" ELSE "FORBIDDEN"]_vars

\* C4 witness: a member of staff who is the line manager of another user was
\* refused the approval of that user's submitted week.
C4_Witness ==
    /\ last.op = "approve_week"
    /\ last.result = "FORBIDDEN"
    /\ last.prev = "submitted"
    /\ users[last.actor].role = "staff"
    /\ \E i \in DOMAIN summaries :
          /\ summaries[i].status = "submitted"
          /\ summaries[i].user_id # last.actor
          /\ users[summaries[i].user_id].manager_id = last.actor

\* What approve, unapprove and decide would answer to this actor now.
ApproveAnswer(a, ws, u, r) == ENABLED (approve_timesheet_week(a, ws, u, "") /\ last'.result = r)

UnapproveAnswer(a, ws, u, r) == ENABLED (unapprove_timesheet_week(a, ws, u, "") /\ last'.result = r)

DecideAnswer(a, id, r) == ENABLED (decide_leave(a, id, TRUE) /\ last'.result = r)

\* C5: for every actor and every leave request, the actor is allowed (refused)
\* to decide the request exactly when the actor is allowed (refused) to approve
\* the owner's submitted week, or to unapprove the owner's approved week.
C5_SameDecision ==
    \A a \in UserIds, id \in DOMAIN leaves, ws \in ApprovalWeek, r \in {"OK", "FORBIDDEN"} :
        LET u == leaves[id].user_id
        IN  /\ RowStatus(u, ws) = "submitted"
               => (ApproveAnswer(a, ws, u, r) <=> DecideAnswer(a, id, r))
            /\ RowStatus(u, ws) = "approved"
               => (UnapproveAnswer(a, ws, u, r) <=> DecideAnswer(a, id, r))

\* C5 witness: a programme manager who is not the line manager was refused the
\* leave decision while the owner's week is approved and waits for the same gate.
C5_Witness ==
    /\ last.op = "decide_leave"
    /\ last.result = "FORBIDDEN"
    /\ users[last.actor].role = "programme_manager"
    /\ \E id \in DOMAIN leaves, ws \in ApprovalWeek :
          RowStatus(leaves[id].user_id, ws) = "approved"

(* ---- week lifecycle properties ---------------------------------------- *)
\* The one row of (u, ws) in a summaries table.
TheRow(tbl, u, ws) == tbl[CHOOSE i \in RowsIn(tbl, u, ws) : TRUE]

\* C6: a submit of a week that is absent, draft or submitted succeeds and leaves
\* exactly one row for (user, week_start), submitted, with the given note and
\* the time of the call; the row is appended when it was absent, and otherwise
\* only status, note and timestamp of the existing row change.
C6_SubmitSetsSubmitted ==
    [][last'.op = "submit_week" =>
       \A u \in LifecycleOwners, ws \in LifecycleWeek, n \in Notes :
          (submit_timesheet_week(u, ws, n) /\ RowStatus(u, ws) # "approved")
          => /\ last'.result = "OK"
             /\ Cardinality(RowsIn(summaries', u, ws)) = 1
             /\ TheRow(summaries', u, ws).status = "submitted"
             /\ TheRow(summaries', u, ws).submit_note = n
             /\ TheRow(summaries', u, ws).submitted_at = now
             /\ TheRow(summaries', u, ws).week_end = ws + 6
             /\ OtherRowsUnchanged(u, ws)
             /\ IF RowStatus(u, ws) = "absent"
                THEN Len(summaries') = Len(summaries) + 1
                ELSE /\ Len(summaries') = Len(summaries)
                     /\ TheRow(summaries', u, ws) =
                           [TheRow(summaries, u, ws) EXCEPT !.status = "submitted",
                                                            !.submit_note = n,
                                                            !.submitted_at = now]]_vars

\* C6 witness: a week that was already submitted was submitted again at a later
\* time with a note, and carries the new time.
C6_Witness ==
    /\ last.op = "submit_week"
    /\ last.result = "OK"
    /\ last.prev = "submitted"
    /\ now > 1
    /\ \E i \in DOMAIN summaries :
          /\ summaries[i].user_id = last.actor
          /\ summaries[i].status = "submitted"
          /\ summaries[i].submit_note = "note"
          /\ summaries[i].submitted_at = now

\* C7: a submit of an approved week fails with ALREADY_APPROVED and changes no
\* table, so status, notes, timestamps and approver of the row stay.
C7_SubmitApprovedFails ==
    [][last'.op = "submit_week" =>
       \A u \in LifecycleOwners, ws \in LifecycleWeek, n \in Notes :
          (submit_timesheet_week(u, ws, n) /\ RowStatus(u, ws) = "approved")
          => last'.result = "ALREADY_APPROVED" /\ TablesUnchanged]_vars

\* C7 witness: the owner's submit of an approved week was refused.
C7_Witness ==
    /\ last.op = "submit_week"
    /\ last.result = "ALREADY_APPROVED"
    /\ \E ws \in LifecycleWeek : RowStatus(last.actor, ws) = "approved"

\* C10: unsubmit of the acting user's submitted week succeeds, makes the row a
\* draft and clears submit_note and submitted_at, leaving the rest of the row
\* and all other rows alone; with no row it fails NOT_FOUND and on an approved
\* week ALREADY_APPROVED, and then no table changes.
C10_Unsubmit ==
    [][last'.op = "unsubmit_week" =>
       \A u \in LifecycleOwners, ws \in LifecycleWeek :
          unsubmit_timesheet_week(u, ws)
          => /\ RowStatus(u, ws) = "submitted"
                => /\ last'.result = "OK"
                   /\ Len(summaries') = Len(summaries)
                   /\ TheRow(summaries', u, ws) =
                         [TheRow(summaries, u, ws) EXCEPT !.status = "draft",
                                                          !.submit_note = "",
                                                          !.submitted_at = None]
                   /\ OtherRowsUnchanged(u, ws)
             /\ RowStatus(u, ws) = "absent"
                => last'.result = "NOT_FOUND" /\ TablesUnchanged
             /\ RowStatus(u, ws) = "approved"
                => last'.result = "ALREADY_APPROVED" /\ TablesUnchanged]_vars

\* C10 witness: a submitted week was unsubmitted and is a draft without
\* submission time, while another user's week is still submitted.
C10_Witness ==
    /\ last.op = "unsubmit_week"
    /\ last.result = "OK"
    /\ last.prev = "submitted"
    /\ \E i, j \in DOMAIN summaries :
          /\ summaries[i].user_id = last.actor
          /\ summaries[i].status = "draft"
          /\ summaries[i].submit_note = ""
          /\ summaries[i].submitted_at = None
          /\ summaries[j].user_id # last.actor
          /\ summaries[j].status = "submitted"

(* ---- approve and unapprove -------------------------------------------- *)
\* What a successful approve does to the row of (u, ws), and to nothing else.
ApproveEffect(a, u, ws, n) ==
    /\ Len(summaries') = Len(summaries)
    /\ TheRow(summaries', u, ws) =
          [TheRow(summaries, u, ws) EXCEPT !.status = "approved", !.approver_id = a,
                                           !.approval_note = n, !.approved_at = now]
    /\ OtherRowsUnchanged(u, ws)

\* What a successful unapprove does: submit_note and submitted_at stay.
UnapproveEffect(u, ws, n) ==
    /\ Len(summaries') = Len(summaries)
    /\ TheRow(summaries', u, ws) =
          [TheRow(summaries, u, ws) EXCEPT !.status = "submitted", !.approver_id = None,
                                           !.approval_note = n, !.approved_at = None]
    /\ OtherRowsUnchanged(u, ws)

\* C8 as claimed: approve succeeds only on an existing submitted row and for an
\* actor who passes the gate, and then sets status, approver, note and time; with
\* no row it fails NOT_FOUND and on a draft or approved row NOT_SUBMITTED,
\* whoever the actor is.
C8_ApproveAsClaimed ==
    [][last'.op = "approve_week" =>
       \A a \in {last'.actor}, u \in ApprovalTargets, ws \in ApprovalWeek, n \in Notes :
          approve_timesheet_week(a, ws, u, n)
          => /\ last'.result = "OK"
                => /\ RowStatus(u, ws) = "submitted"
                   /\ GateAsClaimed(a, u)
                   /\ ApproveEffect(a, u, ws, n)
             /\ RowStatus(u, ws) = "absent" => last'.result = "NOT_FOUND"
             /\ RowStatus(u, ws) \in {"draft", "approved"}
                => last'.result = "NOT_SUBMITTED"]_vars

\* C8 amended: as claimed, but NOT_FOUND and NOT_SUBMITTED are the answers to an
\* administrator, programme manager or project manager only; an actor with role
\* staff is refused FORBIDDEN before the row is looked up.  A failed approve
\* changes no table.
C8_Approve ==
    [][last'.op = "approve_week" =>
       \A a \in {last'.actor}, u \in ApprovalTargets, ws \in ApprovalWeek, n \in Notes :
          approve_timesheet_week(a, ws, u, n)
          => /\ last'.result = "OK"
                => /\ RowStatus(u, ws) = "submitted"
                   /\ GateWithRole(a, u)
                   /\ ApproveEffect(a, u, ws, n)
             /\ last'.result # "OK" => TablesUnchanged
             /\ users[a].role = "staff" => last'.result = "FORBIDDEN"
             /\ users[a].role # "staff"
                => /\ RowStatus(u, ws) = "absent" => last'.result = "NOT_FOUND"
                   /\ RowStatus(u, ws) \in {"draft", "approved"}
                      => last'.result = "NOT_SUBMITTED"]_vars

\* C8 witness: a line manager who is not an administrator approved a submitted
\* week with a note and is recorded as its approver.
C8_Witness ==
    /\ last.op = "approve_week"
    /\ last.result = "OK"
    /\ last.prev = "submitted"
    /\ users[last.actor].role # "admin"
    /\ \E i \in DOMAIN summaries :
          /\ summaries[i].status = "approved"
          /\ summaries[i].approver_id = last.actor
          /\ summaries[i].approval_note = "note"
          /\ summaries[i].approved_at = now

\* C9 as claimed: unapprove succeeds only on an existing approved row and for an
\* actor who passes the gate, then sets the row back to submitted, clears
\* approver and approved_at, stores the given note and keeps submit_note and
\* submitted_at; with no row it fails NOT_FOUND and on a draft or submitted row
\* NOT_APPROVED, whoever the actor is.
C9_UnapproveAsClaimed ==
    [][last'.op = "unapprove_week" =>
       \A a \in {last'.actor}, u \in ApprovalTargets, ws \in ApprovalWeek, n \in Notes :
          unapprove_timesheet_week(a, ws, u, n)
          => /\ last'.result = "OK"
                => /\ RowStatus(u, ws) = "approved"
                   /\ GateAsClaimed(a, u)
                   /\ UnapproveEffect(u, ws, n)
             /\ RowStatus(u, ws) = "absent" => last'.result = "NOT_FOUND"
             /\ RowStatus(u, ws) \in {"draft", "submitted"}
                => last'.result = "NOT_APPROVED"]_vars

\* C9 amended: as claimed, but NOT_FOUND and NOT_APPROVED are the answers to an
\* administrator, programme manager or project manager only; an actor with role
\* staff is refused FORBIDDEN before the row is looked up.  Every actor who
\* passes the gate succeeds on an approved row, the original approver or not.
C9_Unapprove ==
    [][last'.op = "unapprove_week" =>
       \A a \in {last'.actor}, u \in ApprovalTargets, ws \in ApprovalWeek, n \in Notes :
          unapprove_timesheet_week(a, ws, u, n)
          => /\ last'.result = "OK"
                => /\ RowStatus(u, ws) = "approved"
                   /\ GateWithRole(a, u)
                   /\ UnapproveEffect(u, ws, n)
             /\ (RowStatus(u, ws) = "approved" /\ GateWithRole(a, u)) => last'.result = "OK"
             /\ last'.result # "OK" => TablesUnchanged
             /\ users[a].role = "staff" => last'.result = "FORBIDDEN"
             /\ users[a].role # "staff"
                => /\ RowStatus(u, ws) = "absent" => last'.result = "NOT_FOUND"
                   /\ RowStatus(u, ws) \in {"draft", "submitted"}
                      => last'.result = "NOT_APPROVED"]_vars

\* C9 witness: the administrator unapproved, with a note, a week that the line
\* manager had approved; the row is submitted again without approver.
C9_Witness ==
    /\ last.op = "unapprove_week"
    /\ last.result = "OK"
    /\ last.prev = "approved"
    /\ users[last.actor].role = "admin"
    /\ \E i \in DOMAIN summaries :
          /\ summaries[i].status = "submitted"
          /\ summaries[i].approver_id = None
          /\ summaries[i].approved_at = None
          /\ summaries[i].approval_note = "note"
          /\ summaries[i].submitted_at # None
          /\ users[summaries[i].user_id].manager_id # None

(* ---- lifecycle of a week ---------------------------------------------- *)
\* The status of the row of (u, ws) in a summary table, "absent" without a row.
StatusIn(tbl, u, ws) ==
    IF RowsIn(tbl, u, ws) = {} THEN "absent"
    ELSE tbl[CHOOSE i \in RowsIn(tbl, u, ws) : TRUE].status

\* C11: every change of the status of a week is absent or draft to submitted
\* (by submit), submitted to draft (by unsubmit), submitted to approved (by
\* approve) or approved to submitted (by unapprove); no row is ever removed.
C11_Transitions ==
    [][/\ Len(summaries') >= Len(summaries)
       /\ \A u \in UserIds, ws \in 0..7 :
            LET a == StatusIn(summaries, u, ws)
                b == StatusIn(summaries', u, ws)
            IN  a # b =>
                  \/ a \in {"absent", "draft"} /\ b = "submitted" /\ last'.op = "submit_week"
                  \/ a = "submitted" /\ b = "draft" /\ last'.op = "unsubmit_week"
                  \/ a = "submitted" /\ b = "approved" /\ last'.op = "approve_week"
                  \/ a = "approved" /\ b = "submitted" /\ last'.op = "unapprove_week"]_vars

\* C11 witness: a week that was approved is submitted again while another
\* week has been taken back to draft.
C11_Witness ==
    /\ last.op = "unapprove_week"
    /\ last.result = "OK"
    /\ last.prev = "approved"
    /\ \E i, j \in DOMAIN summaries :
          summaries[i].status = "submitted" /\ summaries[j].status = "draft"

(* ---- task hours ledger ------------------------------------------------ *)
\* x floored at zero, as the claims word it.
FlooredAtZero(x) == IF x > 0 THEN x ELSE 0

OtherTasksUnchanged(ts) == \A t \in TaskIds \ ts : tasks'[t] = tasks[t]

\* C12: no task total is negative in any reachable state of creates, edits and
\* ledger calls, and a ledger subtraction that would pass zero leaves exactly 0.
C12_NeverNegative ==
    [][/\ \A t \in TaskIds : tasks[t] >= 0 /\ tasks'[t] >= 0
       /\ (last'.op = "ledger" /\ last'.result \in {"SAME", "MOVED", "REMOVED"}) =>
            \A o \in TaskIds, n \in TaskOptions, oh \in LedgerHours, nh \in LedgerHours :
               /\ (apply_task_logged_hours_edit(o, n, oh, nh) /\ o # n /\ tasks[o] < oh)
                  => tasks'[o] = 0
               /\ (apply_task_logged_hours_edit(o, o, oh, nh) /\ tasks[o] + nh < oh)
                  => tasks'[o] = 0]_vars

\* C12 witness: a ledger call took a task away from an entry's hours and the
\* task's total is zero while another task still has hours.
C12_Witness ==
    /\ last.op = "ledger"
    /\ last.result = "REMOVED"
    /\ \E t \in TaskIds, u \in TaskIds : tasks[t] = 0 /\ tasks[u] > 0
    /\ \E i \in DOMAIN entries : entries[i].task_id \in TaskIds

\* C13: a ledger call with the same task as old and new task sets its total to
\* max(old_total + (new_hours - old_hours), 0) and changes no other task.
C13_SameTask ==
    [][(last'.op = "ledger" /\ last'.result = "SAME") =>
       \A t \in TaskIds, oh \in LedgerHours, nh \in LedgerHours :
          apply_task_logged_hours_edit(t, t, oh, nh)
          => /\ tasks'[t] = FlooredAtZero(tasks[t] + (nh - oh))
             /\ OtherTasksUnchanged({t})]_vars

\* C13 witness: a same-task call has left a positive total.
C13_Witness ==
    /\ last.op = "ledger"
    /\ last.result = "SAME"
    /\ \E t \in TaskIds : tasks[t] > 0

\* C14: a ledger call with different old and new tasks sets the old task's
\* total to max(old_total - old_hours, 0) and the new task's total to its
\* previous total plus new_hours.
C14_Reassignment ==
    [][(last'.op = "ledger" /\ last'.result = "MOVED") =>
       \A o \in TaskIds, n \in TaskIds, oh \in LedgerHours, nh \in LedgerHours :
          (apply_task_logged_hours_edit(o, n, oh, nh) /\ o # n)
          => /\ tasks'[o] = FlooredAtZero(tasks[o] - oh)
             /\ tasks'[n] = tasks[n] + nh
             /\ OtherTasksUnchanged({o, n})]_vars

\* C14 witness: a reassignment has left hours on both tasks.
C14_Witness ==
    /\ last.op = "ledger"
    /\ last.result = "MOVED"
    /\ \A t \in TaskIds : tasks[t] > 0

\* C15: with only the new task its total grows by new_hours, with only the old
\* task its total becomes max(old_total - old_hours, 0), with neither nothing
\* changes; no task other than the old and the new one is modified.
C15_LinkAddedOrRemoved ==
    [][last'.op = "ledger" =>
       \A o \in TaskOptions, n \in TaskOptions, oh \in LedgerHours, nh \in LedgerHours :
          apply_task_logged_hours_edit(o, n, oh, nh)
          => /\ OtherTasksUnchanged({o, n})
             /\ (o = None /\ n # None) => tasks'[n] = tasks[n] + nh
             /\ (o # None /\ n = None) => tasks'[o] = FlooredAtZero(tasks[o] - oh)
             /\ (o = None /\ n = None) => tasks' = tasks]_vars

\* C15 witness: a call with only the old task has lowered its total to a
\* value that is still positive.
C15_Witness ==
    /\ last.op = "ledger"
    /\ last.result = "REMOVED"
    /\ \E t \in TaskIds : tasks[t] > 0 /\ tasks[t] < 3

(* ---- entries and task totals ------------------------------------------ *)
\* The ledger rules as the claims word them.
ClaimedLedger(totals, o, n, oh, nh) ==
    IF o # None /\ o = n
    THEN [totals EXCEPT ![o] = FlooredAtZero(@ + (nh - oh))]
    ELSE [t \in DOMAIN totals |->
            IF t = o THEN FlooredAtZero(totals[t] - oh)
            ELSE IF t = n THEN totals[t] + nh
            ELSE totals[t]]

\* C16: after every successful edit the task totals are those the ledger rules
\* give for the entry's old task and hours and its new task and hours.
C16_EditCallsLedger ==
    [][(last'.op = "edit_entry" /\ last'.result = "OK") =>
       \A u \in {last'.actor}, id \in DOMAIN entries, d \in {0}, h \in TaskHours,
         desc \in Descriptions, t \in TaskOptions :
          edit_timesheet_form(u, id, d, h, desc, None, t)
          => tasks' = ClaimedLedger(tasks, entries[id].task_id, t, entries[id].hours, h)]_vars

RECURSIVE LinkedHours(_, _, _)
\* The sum of the hours of the first k entries linked to task t.
LinkedHours(es, t, k) ==
    IF k = 0 THEN 0
    ELSE LinkedHours(es, t, k - 1) + (IF es[k].task_id = t THEN es[k].hours ELSE 0)

\* C17: after any sequence of creates and edits from empty tables, every task's
\* total is the sum of the hours of the entries linked to it.
C17_TotalsMatchEntries ==
    \A t \in TaskIds : tasks[t] = LinkedHours(entries, t, Len(entries))

\* C18: every stored entry has 0 < hours <= 24.
C18_HoursInRange ==
    \A i \in DOMAIN entries : 0 < entries[i].hours /\ entries[i].hours <= 24

\* C19: a create with hours <= 0 or hours > 24 is refused with INVALID_HOURS on
\* both routes and stores no entry, no audit row and no task total.
C19_InvalidHoursRejected ==
    [][last'.op \in {"create_entry_form", "create_entry_json"} =>
       \A u \in {last'.actor}, d \in {0}, h \in TaskHours, desc \in Descriptions,
         t \in TaskOptions :
          ((h <= 0 \/ h > 24) /\ (\/ create_timesheet_form(u, d, h, desc, None, t)
                                  \/ create_timesheet(u, d, h, desc, None, t)))
          => last'.result = "INVALID_HOURS" /\ NothingStored]_vars

\* C19 witness: a create on the JSON route was refused for its hours in a week
\* that is not approved, and the tables are still empty.
C19_Witness ==
    /\ last.op = "create_entry_json"
    /\ last.result = "INVALID_HOURS"
    /\ last.prev # "approved"
    /\ entries = <<>> /\ audits = <<>>
    /\ \A t \in TaskIds : tasks[t] = 0

\* The text "{date} ({hours}h)" of the dates and hours a create can store here.
CreatedText(d, h) ==
    CASE d = 0 /\ h = 3 -> "2024-06-10 (3.0h)"
      [] d = 0 /\ h = 5 -> "2024-06-10 (5.0h)"
      [] OTHER -> "?"

\* C20: a successful create appends exactly one audit row, for the new entry,
\* with the creator as actor, action "created", field_name "entry", empty
\* old_value and new_value "{date} ({hours}h)"; a failed create appends none.
C20_CreateAudit ==
    [][last'.op \in {"create_entry_form", "create_entry_json"} =>
       \A u \in {last'.actor}, d \in {0}, h \in TaskHours, desc \in Descriptions,
         t \in TaskOptions :
          (\/ create_timesheet_form(u, d, h, desc, None, t)
           \/ create_timesheet(u, d, h, desc, None, t))
          => IF last'.result = "OK"
             THEN /\ Len(audits') = Len(audits) + 1
                  /\ \A i \in DOMAIN audits : audits'[i] = audits[i]
                  /\ LET row == audits'[Len(audits')]
                     IN  /\ row.entry_id = Len(entries')
                         /\ entries'[row.entry_id].user_id = u
                         /\ row.actor_id = u
                         /\ row.action = "created"
                         /\ row.field_name = "entry"
                         /\ row.old_value = ""
                         /\ row.new_value = CreatedText(d, h)
             ELSE audits' = audits]_vars

\* C20 witness: the audit row of a created entry of 5 hours.
C20_Witness ==
    /\ last.op \in {"create_entry_form", "create_entry_json"}
    /\ last.result = "OK"
    /\ Len(audits) = 1
    /\ audits[1].action = "created"
    /\ audits[1].new_value = "2024-06-10 (5.0h)"

(* ---- audit rows of an edit -------------------------------------------- *)
\* The text of a date, of hours and of an optional link in an audit row.
DateText(d) == CASE d = 0 -> "2024-06-10" [] d = 3 -> "2024-06-13" [] OTHER -> "?"

HoursText(h) == CASE h = 3 -> "3.0" [] h = 5 -> "5.0" [] OTHER -> "?"

LinkText(x) == CASE x = None -> "" [] x = 1 -> "1" [] OTHER -> "?"

\* The rows the claim expects of an edit: one per field whose submitted value
\* differs from the stored one.
ExpectedEditRows(e, d, h, desc, p, t) ==
    (IF e.entry_date # d THEN {<<"entry_date", DateText(e.entry_date), DateText(d)>>} ELSE {})
    \cup (IF e.hours # h THEN {<<"hours", HoursText(e.hours), HoursText(h)>>} ELSE {})
    \cup (IF e.description # desc THEN {<<"description", e.description, desc>>} ELSE {})
    \cup (IF e.project_id # p THEN {<<"project_id", LinkText(e.project_id), LinkText(p)>>} ELSE {})
    \cup (IF e.task_id # t THEN {<<"task_id", LinkText(e.task_id), LinkText(t)>>} ELSE {})

\* C21: a successful edit appends exactly one row, with action "edited", the
\* field's name and its old and new value, for each field whose submitted
\* value differs from the stored one, and no other row.
C21_EditAuditRows ==
    [][(last'.op = "edit_entry" /\ last'.result = "OK") =>
       \A u \in {last'.actor}, id \in DOMAIN entries, d \in AuditDates, h \in AuditHours,
         desc \in Descriptions, p \in AuditLinks, t \in AuditLinks :
          edit_timesheet_form(u, id, d, h, desc, p, t)
          => LET expected == ExpectedEditRows(entries[id], d, h, desc, p, t)
                 added == (Len(audits) + 1)..Len(audits')
             IN  /\ Len(audits') = Len(audits) + Cardinality(expected)
                 /\ \A i \in DOMAIN audits : audits'[i] = audits[i]
                 /\ \A i \in added : /\ audits'[i].action = "edited"
                                      /\ audits'[i].entry_id = id
                                      /\ audits'[i].actor_id = u
                 /\ {<<audits'[i].field_name, audits'[i].old_value, audits'[i].new_value>> :
                        i \in added} = expected]_vars

\* C21 witness: after the row of the create, one edit that changed all five
\* fields has appended five rows.
C21_Witness ==
    /\ last.op = "edit_entry"
    /\ last.result = "OK"
    /\ Len(audits) = 6
    /\ {audits[i].field_name : i \in 2..6}
         = {"entry_date", "hours", "description", "project_id", "task_id"}

(* ---- append-only audit log -------------------------------------------- *)
\* C22: in every step, each audit row that existed before the step still
\* exists after it with all its attributes unchanged.
C22_AuditAppendOnly ==
    [][/\ Len(audits') >= Len(audits)
       /\ \A i \in DOMAIN audits : audits'[i] = audits[i]]_vars

(* ---- ownership of an entry -------------------------------------------- *)
\* What an edit of a missing entry and an edit by another user than the owner
\* must do, given the answer to the second.
EditOwnerOnly(notOwnerAnswer) ==
    /\ last'.op = "edit_entry" =>
          \A u \in {last'.actor}, id \in 1..MaxEntries, d \in AuditDates, h \in AuditHours,
            desc \in Descriptions, p \in AuditLinks, t \in AuditLinks :
             edit_timesheet_form(u, id, d, h, desc, p, t)
             => /\ id \notin DOMAIN entries
                   => last'.result = "NOT_FOUND" /\ NothingStored
                /\ (id \in DOMAIN entries /\ entries[id].user_id # u)
                   => last'.result = notOwnerAnswer /\ NothingStored
    /\ \A id \in DOMAIN entries : entries'[id].user_id = entries[id].user_id

\* C23 as claimed: an edit of a missing entry answers NOT_FOUND, an edit by
\* another user than the owner answers NOT_OWNER, both change nothing, and no
\* edit changes the owner of an entry.
C23_NotOwnerAsClaimed == [][EditOwnerOnly("NOT_OWNER")]_vars

\* C23 amended: an edit of a missing entry and an edit by another user than
\* the owner both answer NOT_FOUND and change nothing, and no edit changes the
\* owner of an entry.
C23_NotOwnerIsNotFound == [][EditOwnerOnly("NOT_FOUND")]_vars

\* C23 witness: the edit of an existing entry by a user who does not own it
\* was answered NOT_FOUND.
C23_Witness ==
    /\ last.op = "edit_entry"
    /\ last.result = "NOT_FOUND"
    /\ \E i \in DOMAIN entries : entries[i].user_id \notin {None, last.actor}

(* ---- refusals change nothing ------------------------------------------ *)
\* C24: a request that ends in an error leaves the entries, the audit rows,
\* the week summaries, the task totals and the leave requests as they were; a
\* refused submit leaves no new summary row.
C24_ErrorsChangeNothing ==
    [][last'.result \in {"INVALID_HOURS", "WEEK_APPROVED", "NOT_FOUND", "NOT_OWNER",
                         "ALREADY_APPROVED", "NOT_SUBMITTED", "NOT_APPROVED", "FORBIDDEN"}
       => /\ entries' = entries
          /\ audits' = audits
          /\ summaries' = summaries
          /\ tasks' = tasks
          /\ leaves' = leaves]_vars

\* C24 witness: a submit was refused on an approved week while an entry, its
\* audit row and a leave request are stored.
C24_Witness ==
    /\ last.op = "submit_week"
    /\ last.result = "ALREADY_APPROVED"
    /\ Len(entries) > 0 /\ Len(audits) > 0 /\ Len(leaves) > 0
    /\ Len(summaries) = 1

(* ---- not found and forbidden ------------------------------------------ *)
\* The answers of approve and unapprove to the actors for which a missing row
\* is answered NOT_FOUND; every other actor is answered FORBIDDEN throughout.
NotFoundApart(lookedUpFor) ==
    last'.op \in {"approve_week", "unapprove_week"} =>
       \A a \in {last'.actor}, u \in ApprovalTargets, ws \in ApprovalWeek, n \in Notes :
          /\ approve_timesheet_week(a, ws, u, n)
             => IF a \in lookedUpFor
                THEN /\ RowStatus(u, ws) = "absent" => last'.result = "NOT_FOUND"
                     /\ (RowStatus(u, ws) = "submitted" /\ ~GateAsClaimed(a, u))
                        => last'.result = "FORBIDDEN"
                ELSE last'.result = "FORBIDDEN"
          /\ unapprove_timesheet_week(a, ws, u, n)
             => IF a \in lookedUpFor
                THEN /\ RowStatus(u, ws) = "absent" => last'.result = "NOT_FOUND"
                     /\ (RowStatus(u, ws) = "approved" /\ ~GateAsClaimed(a, u))
                        => last'.result = "FORBIDDEN"
                ELSE last'.result = "FORBIDDEN"

\* C25 as claimed: for every actor, approve and unapprove answer NOT_FOUND when
\* no row exists for (target, week_start), and FORBIDDEN when the row is in the
\* state the operation requires and the actor fails the gate.
C25_DistinctAsClaimed == [][NotFoundApart(UserIds)]_vars

\* C25 amended: that holds for an administrator, programme manager or project
\* manager; an actor with role staff is answered FORBIDDEN whether or not the
\* row exists.
C25_DistinctForManagers ==
    [][NotFoundApart({a \in UserIds : users[a].role # "staff"})]_vars

\* C25 witness: a project manager who is not the target's line manager was
\* answered FORBIDDEN on a submitted week.
C25_Witness ==
    /\ last.op = "approve_week"
    /\ last.result = "FORBIDDEN"
    /\ last.prev = "submitted"
    /\ last.actor \in UserIds
    /\ users[last.actor].role = "project_manager"

(* ---- the week of a date ----------------------------------------------- *)
\* Day 0 is a Monday, so the Mondays are the multiples of seven.
Monday(d) == d % 7 = 0

\* The page of the week of today, for each today of the given set, shows
\* (week_start, week_end) with week_start a Monday, week_start <= today <=
\* week_end and week_end = week_start + 6; every date of that week, week_start
\* included, resolves to the same pair.
WeekResolved(days) ==
    last'.op = "timesheets" =>
       \A u \in {last'.actor}, d \in days :
          timesheets(u, d)
          => /\ last'.result = "OK"
             /\ Monday(last'.week_start)
             /\ last'.week_start <= d
             /\ d <= last'.week_end
             /\ last'.week_end = last'.week_start + 6
             /\ \A e \in last'.week_start .. last'.week_end :
                   week_bounds(e) = <<last'.week_start, last'.week_end>>

\* C26: for every date d, resolveWeek(d) returns (week_start, week_end) with
\* week_start a Monday, week_start <= d <= week_end and week_end = week_start
\* + 6 days; two dates of the same week resolve to the same pair and
\* resolveWeek(week_start) returns week_start again.
C26_WeekOfEveryDate == [][WeekResolved(Todays)]_vars

(* ---- one row per user and week ---------------------------------------- *)
\* C27: at most one TimesheetWeekSummary row exists per (user, week_start) in
\* every reachable state, also when two submit-week requests for the same user
\* and week interleave, each reading that no row exists before either commits.
C27_OneRowPerWeek ==
    \A u \in UserIds, ws \in ApprovalWeek :
       Cardinality({i \in 1..Len(summaries) :
                      summaries[i].user_id = u /\ summaries[i].week_start = ws}) <= 1

(* ---- deciding a leave request ----------------------------------------- *)
\* The answers of decide_leave when the request is looked up for the given
\* actors only and every other actor is refused at once: a missing request is
\* NOT_FOUND; an actor who is an administrator or the owner's line manager
\* stores APPROVED or REJECTED and becomes the reviewer; any other actor is
\* FORBIDDEN; a refusal leaves the requests as they were.
DecideContract(lookedUpFor) ==
    last'.op = "decide_leave" =>
       \A a \in {last'.actor}, id \in 1..MaxLeaves, ap \in BOOLEAN :
          decide_leave(a, id, ap)
          => IF a \notin lookedUpFor
             THEN last'.result = "FORBIDDEN" /\ leaves' = leaves
             ELSE IF id \notin DOMAIN leaves
             THEN last'.result = "NOT_FOUND" /\ leaves' = leaves
             ELSE IF GateAsClaimed(a, leaves[id].user_id)
             THEN /\ last'.result = "OK"
                  /\ leaves'[id].status = (IF ap THEN "approved" ELSE "rejected")
                  /\ leaves'[id].reviewer_id = a
             ELSE last'.result = "FORBIDDEN" /\ leaves' = leaves

\* C28 as claimed: decideLeave by any actor who is an administrator or the
\* line manager of the request's owner sets the status to APPROVED or REJECTED
\* as asked and the reviewer to the actor; a missing request fails NOT_FOUND
\* and an actor who fails the gate fails FORBIDDEN, status and reviewer
\* unchanged.
C28_DecideAsClaimed == [][DecideContract(UserIds)]_vars

\* C28 amended: that holds for an actor whose role is administrator, programme
\* manager or project manager; an actor with role staff fails FORBIDDEN in
\* every case, the owner's line manager and a missing request included.
C28_DecideForManagers ==
    [][DecideContract({a \in UserIds : users[a].role # "staff"})]_vars

\* C28 witness: a programme manager who is the owner's line manager rejected a
\* request that had been approved before.
C28_Witness ==
    /\ last.op = "decide_leave"
    /\ last.result = "OK"
    /\ last.prev = "approved"
    /\ last.actor \in UserIds
    /\ users[last.actor].role = "programme_manager"
    /\ \E id \in DOMAIN leaves :
          /\ leaves[id].status = "rejected"
          /\ leaves[id].reviewer_id = last.actor
          /\ users[leaves[id].user_id].manager_id = last.actor

(* ---- expected hours --------------------------------------------------- *)
\* One of the user's leave requests with status approved covers the day.
Covered(u, day) ==
    \E i \in DOMAIN leaves :
       /\ leaves[i].user_id = u
       /\ leaves[i].status = "approved"
       /\ leaves[i].start_date <= day
       /\ day <= leaves[i].end_date

\* The user's configured hours for the weekday of the day, Monday being index
\* 0 and Sunday index 6.
Configured(u, day) ==
    LET index == CHOOSE k \in 0..6 : Monday(day - k)
    IN  users[u].working_hours[index + 1]

ClaimedStatus(logged, expected) ==
    CASE expected <= 0 /\ logged <= 0 -> {"complete"}
      [] logged <= 0 /\ expected > 0 -> {"missing"}
      [] 0 < logged /\ logged < expected -> {"partial"}
      [] OTHER -> {"complete"}

\* The values of logged and expected on which the function is compared.
StatusGrid == -2 .. 10

\* C30: day status is a total function of (logged, expected) giving exactly
\* one of complete, missing, partial: complete when expected <= 0 and logged
\* <= 0; missing when logged <= 0 and expected > 0; partial when 0 < logged <
\* expected; complete otherwise.  It holds of every row of the page and of
\* the function on a grid of values.
C30_DayStatus ==
    [][last'.op = "timesheets" =>
          \A u \in {last'.actor}, d \in ViewTodays :
             timesheets(u, d)
             => /\ \A offset \in 0..6 :
                      LET row == last'.day_statuses[offset]
                      IN  {row.status} = ClaimedStatus(row.logged, row.expected)
                /\ \A logged \in StatusGrid, expected \in StatusGrid :
                      {day_status(logged, expected)} = ClaimedStatus(logged, expected)]_vars

\* C30 witness: one page shows a partial day, a missing day and both kinds of
\* complete day: hours logged where none are expected, and nothing logged
\* where nothing is expected.
C30_Witness ==
    /\ last.op = "timesheets"
    /\ last.result = "OK"
    /\ \E a, b, c, e \in 0..6 :
          /\ last.day_statuses[a].status = "partial"
          /\ last.day_statuses[b].status = "missing"
          /\ last.day_statuses[c].status = "complete"
          /\ last.day_statuses[c].logged > 0
          /\ last.day_statuses[c].expected = 0
          /\ last.day_statuses[e].status = "complete"
          /\ last.day_statuses[e].logged = 0

(* ---- entry, audit rows and task total together ------------------------ *)
\* C31: the entry write, its audit rows and the task logged_hours change of
\* one create or edit become durable together or not at all: no reachable
\* state, also after a request that failed between its writes, holds an entry
\* without its audit row, or a task total that differs from the hours of the
\* entries linked to the task.
C31_WrittenTogether ==
    /\ \A i \in DOMAIN entries :
          \E j \in DOMAIN audits :
             audits[j].entry_id = i /\ audits[j].action = "created"
    /\ \A j \in DOMAIN audits : audits[j].entry_id \in DOMAIN entries
    /\ \A t \in TaskIds : tasks[t] = LinkedHours(entries, t, Len(entries))

(* ---- no status is a dead end ------------------------------------------ *)
\* Some request of the given kind is possible now and leaves the week of
\* (u, ws) in the status wanted.
CanSubmit(u, ws) ==
    \E n \in Notes :
       ENABLED (submit_timesheet_week(u, ws, n) /\ StatusIn(summaries', u, ws) = "submitted")

CanUnsubmit(u, ws) ==
    ENABLED (unsubmit_timesheet_week(u, ws) /\ StatusIn(summaries', u, ws) = "draft")

CanApprove(u, ws) ==
    \E a \in UserIds, n \in Notes :
       ENABLED (approve_timesheet_week(a, ws, u, n) /\ StatusIn(summaries', u, ws) = "approved")

CanUnapprove(u, ws) ==
    \E a \in UserIds, n \in Notes :
       ENABLED (unapprove_timesheet_week(a, ws, u, n)
                /\ StatusIn(summaries', u, ws) = "submitted")

\* C32: no status is a dead end.  In every reachable state a week without a
\* row or in draft can be submitted, a submitted week can be taken back to
\* draft and, when some actor passes the gate for its owner, approved, and an
\* approved week can then be unapproved to submitted; as this holds in every
\* reachable state, each of draft, submitted and approved is reachable again
\* from each of them by chaining these steps.
C32_NoDeadEnd ==
    \A u \in ApprovalTargets, ws \in ApprovalWeek :
       (\E a \in UserIds : GateAsClaimed(a, u))
       => /\ StatusIn(summaries, u, ws) \in {"absent", "draft"} => CanSubmit(u, ws)
          /\ StatusIn(summaries, u, ws) = "submitted"
             => CanUnsubmit(u, ws) /\ CanApprove(u, ws)
          /\ StatusIn(summaries, u, ws) = "approved" => CanUnapprove(u, ws)

\* C32 witness: a week that had been approved and unapproved is in draft
\* again after its owner took it back.
C32_Witness ==
    /\ last.op = "unsubmit_week"
    /\ last.result = "OK"
    /\ \E i \in DOMAIN summaries :
          /\ summaries[i].user_id = last.actor
          /\ summaries[i].status = "draft"
          /\ summaries[i].approval_note = "note"

(* ---- where summary rows come from ------------------------------------- *)
\* C33: a summary row comes into existence only through a successful submit:
\* creating and editing entries, unsubmit, approve and unapprove never add
\* one, so a week with entries and no submission has no row; and none of the
\* six entry and week operations removes a row or hands it to another
\* (user, week).
C33_RowsOnlyBySubmit ==
    [][/\ \A i \in DOMAIN summaries :
             /\ i \in DOMAIN summaries'
             /\ summaries'[i].user_id = summaries[i].user_id
             /\ summaries'[i].week_start = summaries[i].week_start
       /\ Len(summaries') # Len(summaries)
          => /\ last'.op = "submit_week"
             /\ last'.result = "OK"
             /\ last'.prev = "absent"
             /\ Len(summaries') = Len(summaries) + 1
             /\ summaries'[Len(summaries')].user_id = last'.actor]_vars

\* C33 witness: an entry was stored in a week that has no summary row, and the
\* table of summaries is still empty.
C33_Witness ==
    /\ last.op \in {"create_entry_form", "create_entry_json"}
    /\ last.result = "OK"
    /\ last.prev = "absent"
    /\ Len(entries) > 0
    /\ summaries = <<>>

C35_CanonicalWindow ==
    \A i \in DOMAIN summaries :
       /\ Monday(summaries[i].week_start)
       /\ summaries[i].week_end = summaries[i].week_start + 6

(* ---- entry requests next to an approval ------------------------------- *)
\* C36: when a create or an edit of a user runs concurrently with the approval
\* of that user's week (the entry request reads the week status, the approval
\* commits, then the entry request commits), no execution ends with the entry
\* change committed into a week that was approved at the time of the commit.
C36_NoCommitIntoApprovedWeek ==
    [][(last'.op \in {"create_entry_form", "edit_entry"} /\ entries' # entries)
       => \A id \in DOMAIN entries' :
             (id \notin DOMAIN entries \/ entries'[id] # entries[id])
             => /\ CalendarWeekStatus(entries'[id].user_id, entries'[id].entry_date)
                      # "approved"
                /\ id \in DOMAIN entries
                   => CalendarWeekStatus(entries[id].user_id, entries[id].entry_date)
                         # "approved"]_vars

(* ---- concurrent creates on one task ----------------------------------- *)
\* C37: when two creates that link the same task run concurrently (each reads
\* logged_hours, adds its hours and writes the result back), the task's
\* logged_hours after both have committed includes the hours of both entries.
C37_NoLostIncrement ==
    inflight = <<>>
    => \A t \in TaskIds : tasks[t] = LinkedHours(entries, t, Len(entries))

(* ---- approval of one's own week --------------------------------------- *)
\* The approve or unapprove request of actor a for a's own week is refused:
\* it is not answered OK and no summary changes.
SelfRefused(a) ==
    \A ws \in ApprovalWeek, n \in Notes :
       (approve_timesheet_week(a, ws, a, n) \/ unapprove_timesheet_week(a, ws, a, n))
       => (last'.result # "OK" /\ summaries' = summaries)

\* The approve request of actor a for a's own submitted week is answered OK and
\* the week becomes approved with a as its approver.
SelfApproved(a) ==
    \A ws \in ApprovalWeek, n \in Notes :
       (approve_timesheet_week(a, ws, a, n) /\ StatusIn(summaries, a, ws) = "submitted")
       => /\ last'.result = "OK"
          /\ StatusIn(summaries', a, ws) = "approved"
          /\ TheRow(summaries', a, ws).approver_id = a

\* C38 as claimed: a user whose role is not admin can never approve or
\* unapprove their own week: whatever manager_id values the administrators
\* have set, approve and unapprove with the actor equal to the week's owner
\* and the actor's role different from admin are refused.
C38_SelfNeverApproves ==
    [][last'.op \in {"approve_week", "unapprove_week"}
       => \A a \in {last'.actor} \cap UserIds :
             users[a].role # "admin" => SelfRefused(a)]_vars

\* C38 amended: that holds for a user whose manager_id is not their own id, and
\* for every user of role staff; a programme manager or project manager whose
\* manager_id an administrator has set to their own id approves their own
\* submitted week.
C38_SelfRefusedUnlessOwnManager ==
    [][last'.op \in {"approve_week", "unapprove_week"}
       => \A a \in {last'.actor} \cap UserIds :
             /\ (users[a].role # "admin"
                    /\ (users[a].manager_id # a \/ users[a].role = "staff"))
                => SelfRefused(a)
             /\ (users[a].role \in {"programme_manager", "project_manager"}
                    /\ users[a].manager_id = a)
                => SelfApproved(a)]_vars

\* C38 witness: the project manager, whose line manager is not themself, asked
\* to approve their own submitted week (the only week there is) and was
\* answered FORBIDDEN.
C38_Witness ==
    /\ last.op = "approve_week"
    /\ last.actor = 3
    /\ last.result = "FORBIDDEN"
    /\ last.prev = "submitted"
    /\ users[3].manager_id # 3
    /\ RowsIn(summaries, Staff, 0) = {}
    /\ StatusIn(summaries, 3, 0) = "submitted"

(* ---- reviewer of a leave request -------------------------------------- *)
\* The leave requests that exist (a deleted row is not one).
LeaveIds == {i \in DOMAIN leaves : leaves[i].user_id # None}

\* C39: in every reachable state a leave request has a reviewer exactly when
\* its status is not pending, and a request that has been decided never returns
\* to pending (it may only be decided again, approved or rejected).
C39_ReviewerIffDecided ==
    /\ [](\A i \in LeaveIds :
             (leaves[i].reviewer_id # None) <=> (leaves[i].status # "pending"))
    /\ [][\A i \in LeaveIds :
             (leaves[i].status # "pending" /\ i \in DOMAIN leaves'
                 /\ leaves'[i].user_id # None)
             => leaves'[i].status \in {"approved", "rejected"}]_vars

(* ---- what a week operation leaves alone ------------------------------- *)
\* The summaries differ at most in one row, the row of (u, ws): every other row
\* is as it was, a row that is new belongs to (u, ws), and no row is removed.
OnlyRow(u, ws) ==
    /\ Len(summaries') >= Len(summaries)
    /\ \A i \in DOMAIN summaries' :
          (i \notin DOMAIN summaries \/ summaries'[i] # summaries[i])
          => (summaries'[i].user_id = u /\ summaries'[i].week_start = ws)
    /\ Cardinality({i \in DOMAIN summaries' :
                       i \notin DOMAIN summaries \/ summaries'[i] # summaries[i]}) <= 1

\* C40: each week operation changes at most one summary row and nothing else:
\* submit and unsubmit touch only the acting user's own row of the given
\* week_start, approve and unapprove touch only the row of the given
\* (user_id, week_start), and none of the four changes an entry, an audit row,
\* a task total, a leave request or another summary row.
C40_WeekFrame ==
    [][last'.op \in {"submit_week", "unsubmit_week", "approve_week", "unapprove_week"}
       => /\ UNCHANGED <<entries, audits, tasks, leaves>>
          /\ \A a \in {last'.actor} \cap UserIds, ws \in Mondays :
                /\ (unsubmit_timesheet_week(a, ws)
                       \/ \E n \in Notes : submit_timesheet_week(a, ws, n))
                   => OnlyRow(a, ws)
                /\ \A u \in UserIds :
                      (\E n \in Notes : \/ approve_timesheet_week(a, ws, u, n)
                                         \/ unapprove_timesheet_week(a, ws, u, n))
                      => OnlyRow(u, ws)]_vars

\* C40 witness: a week was approved while the table held another summary row,
\* an entry with its audit row, hours on a task and a leave request.
C40_Witness ==
    /\ last.op = "approve_week"
    /\ last.result = "OK"
    /\ Len(summaries) >= 2
    /\ Len(entries) >= 1
    /\ Len(audits) >= 1
    /\ Len(leaves) >= 1
    /\ \E t \in TaskIds : tasks[t] > 0

====
